---- MODULE Spec2Model ----
(***************************************************************************)
(* AAMVA licence-record codec of the Barcode repository: the Encoder       *)
(* (generateAAMVAString), the Decoder (parseAAMVARaw) and the Reconciler   *)
(* (validateBarcode) of src/services/pdfService.ts.                        *)
(*                                                                         *)
(* A JavaScript string is modelled as a sequence of characters, each       *)
(* character a one-character TLA+ string; the control characters that have *)
(* no TLA+ escape (RS, U+2028) are named tokens.                           *)
(***************************************************************************)
EXTENDS Integers, Sequences, FiniteSets, TLC

VARIABLES
    data,         \* the Attribute Record: data / currentFormData (DLFormData)
    rawString,    \* the raw record handed to validateBarcode
    origin,       \* where rawString comes from: "none", "encoder", "scan"
    removed,      \* the element whose data line the scan lost, or NoElement
    scannedData,  \* validateBarcode's local: parseAAMVARaw(rawString)
    report,       \* the ValidationReport returned, or NoReport
    pc,           \* "input", "raw", "validated"
    lastIndex,    \* the lastIndex of the RegExp of each ELEMENT_MAP entry
    selectedJurisdiction, \* App state: the Jurisdiction chosen, or NoJurisdiction
    isScanning,   \* a handleImageScan call is between its start and its end
    edits,        \* number of form handlers run so far
    ai,           \* the module variable ai of the analysis service: "null" or "client"
    apiKey,       \* process.env.API_KEY
    call,         \* analyzeDocument: "idle", "pending", "received", "settled"
    response,     \* what generateContent settled with, or NoResponse
    analysis,     \* what analyzeDocument returned or threw, or NoAnalysis
    isValidating, \* App state: a handleValidateScan call has not released the buttons
    validation,   \* handleValidateScan: "idle", "reading", "decoding", "unread"
    capturedData, \* the formData of the render handleValidateScan was called in
    scanPc,       \* handleImageScan: "idle", "preprocess", "createWorker", "recognize", "terminate"
    worker,       \* the OCR worker of handleImageScan: "none", "created", "terminated"
    jurisdictions, \* the shared array JURISDICTIONS
    detection,    \* the text detectJurisdiction was called with and what it returned
    hookStatus,   \* useDocumentAnalysis: status, the ProcessingStatus
    hookResult,   \* useDocumentAnalysis: result, the AnalysisResult or "null"
    hookError,    \* useDocumentAnalysis: error, the message or "null"
    imageUrls,    \* useDocumentAnalysis: the object URLs of the pages
    calls         \* the processFile and loadSample calls in flight, by position

codecVars == <<rawString, origin, removed, scannedData, report, pc, lastIndex>>
validateVars == <<isValidating, validation, capturedData>>
workerVars   == <<scanPc, worker>>
formVars  == <<selectedJurisdiction, isScanning, edits, validateVars, workerVars>>
aiVars    == <<ai, apiKey, call, response, analysis>>
detectVars == <<jurisdictions, detection>>
hookVars  == <<hookStatus, hookResult, hookError, imageUrls, calls>>
vars == <<data, codecVars, formVars, aiVars, detectVars, hookVars>>

----------------------------------------------------------------------------
(* Characters *)

LF  == "\n"
CR  == "\r"
TAB == "\t"
RS  == "<RS>"      \* U+001E, record separator
LS  == "<LS>"      \* U+2028, line separator

UpperSeq == <<"A","B","C","D","E","F","G","H","I","J","K","L","M",
              "N","O","P","Q","R","S","T","U","V","W","X","Y","Z">>
LowerSeq == <<"a","b","c","d","e","f","g","h","i","j","k","l","m",
              "n","o","p","q","r","s","t","u","v","w","x","y","z">>
DigitSeq == <<"0","1","2","3","4","5","6","7","8","9">>

UpperAZ == {UpperSeq[i] : i \in 1..26}
LowerAZ == {LowerSeq[i] : i \in 1..26}
Digit   == {DigitSeq[i] : i \in 1..10}

\* the characters \s matches and String.prototype.trim strips
WhiteSpace == {" ", TAB, LF, CR, LS}
\* the characters the regular expression atom . does not match
LineTerminator == {LF, CR, LS}

UpperMap == [c \in LowerAZ |-> UpperSeq[CHOOSE i \in 1..26 : LowerSeq[i] = c]]
DigitVal == [c \in Digit |-> (CHOOSE i \in 1..10 : DigitSeq[i] = c) - 1]

----------------------------------------------------------------------------
(* String.prototype methods *)

toUpperCase(s) == [i \in 1..Len(s) |-> IF s[i] \in LowerAZ THEN UpperMap[s[i]] ELSE s[i]]

startsWith(s, p) == Len(s) >= Len(p) /\ SubSeq(s, 1, Len(p)) = p

endsWith(s, p) == Len(s) >= Len(p) /\ SubSeq(s, Len(s) - Len(p) + 1, Len(s)) = p

includes(s, p) == \E i \in 1..(Len(s) - Len(p) + 1) : SubSeq(s, i, i + Len(p) - 1) = p

substring(s, from) == SubSeq(s, from + 1, Len(s))

trim(s) ==
    IF \A i \in 1..Len(s) : s[i] \in WhiteSpace THEN <<>>
    ELSE LET first == CHOOSE i \in 1..Len(s) :
                         s[i] \notin WhiteSpace /\ \A j \in 1..(i-1) : s[j] \in WhiteSpace
             last  == CHOOSE i \in 1..Len(s) :
                         s[i] \notin WhiteSpace /\ \A j \in (i+1)..Len(s) : s[j] \in WhiteSpace
         IN  SubSeq(s, first, last)

\* s.replace(/\s+/g, ' ')
NotDropped(c) == c # "<drop>"
collapseSpaces(s) ==
    SelectSeq([i \in 1..Len(s) |->
                  IF s[i] \notin WhiteSpace THEN s[i]
                  ELSE IF i = 1 \/ s[i-1] \notin WhiteSpace THEN " " ELSE "<drop>"],
              NotDropped)

\* s.replace(/\D/g, '')
IsDigit(c) == c \in Digit
stripNonDigits(s) == SelectSeq(s, IsDigit)

\* the record split without CR being replaced
keepCR(s) == s

\* s.replace(/\r/g, '\n')
replaceCRbyLF(s) == [i \in 1..Len(s) |-> IF s[i] = CR THEN LF ELSE s[i]]

\* s.split(sep) from index start on, for a one-character separator
RECURSIVE splitFrom(_, _, _)
splitFrom(s, sep, start) ==
    IF \E i \in start..Len(s) : s[i] = sep
    THEN LET p == CHOOSE i \in start..Len(s) :
                     s[i] = sep /\ \A j \in start..(i-1) : s[j] # sep
         IN  <<SubSeq(s, start, p - 1)>> \o splitFrom(s, sep, p + 1)
    ELSE <<SubSeq(s, start, Len(s))>>

split(s, sep) == splitFrom(s, sep, 1)

\* Number.prototype.toString() of a non-negative integer
RECURSIVE toString(_)
toString(n) == IF n < 10 THEN <<DigitSeq[n + 1]>>
               ELSE toString(n \div 10) \o <<DigitSeq[(n % 10) + 1]>>

\* s.padStart(width, '0')
padStart(s, width) ==
    IF Len(s) >= width THEN s ELSE [i \in 1..(width - Len(s)) |-> "0"] \o s

RECURSIVE concat(_)
concat(ss) == IF ss = <<>> THEN <<>> ELSE Head(ss) \o concat(Tail(ss))

----------------------------------------------------------------------------
(* Slot names of DLFormData and element identifiers *)

DAJ == <<"D","A","J">>
DCG == <<"D","C","G">>
IIN == <<"I","I","N">>
Version == <<"V","e","r","s","i","o","n">>
DDA == <<"D","D","A">>
DEB == <<"D","E","B">>
DAQ == <<"D","A","Q">>
DBA == <<"D","B","A">>
DCS == <<"D","C","S">>
DAC == <<"D","A","C">>
DAD == <<"D","A","D">>
DBB == <<"D","B","B">>
DBD == <<"D","B","D">>
DAG == <<"D","A","G">>
DAI == <<"D","A","I">>
DAK == <<"D","A","K">>
DCA == <<"D","C","A">>
DBC == <<"D","B","C">>
DAU == <<"D","A","U">>
DAW == <<"D","A","W">>
DAY == <<"D","A","Y">>
DAZ == <<"D","A","Z">>
DCB == <<"D","C","B">>
DCD == <<"D","C","D">>
DCF == <<"D","C","F">>
DDE == <<"D","D","E">>
DDF == <<"D","D","F">>
DDG == <<"D","D","G">>

Slots == {DAJ, DCG, IIN, Version, DDA, DEB, DAQ, DBA, DCS, DAC, DAD, DBB, DBD,
          DAG, DAI, DAK, DCA, DBC, DAU, DAW, DAY, DAZ, DCB, DCD, DCF}

----------------------------------------------------------------------------
(* The Encoder: generateAAMVAString *)

complianceInd  == <<"@">>
dataElementSep == <<LF>>
recordSep      == <<RS>>
segmentTerm    == <<CR>>
fileType       == <<"A","N","S","I"," ">>
JurVersion     == <<"0","0">>
Entries        == <<"0","1">>
SubfileType    == <<"D","L">>
NONE           == <<"N","O","N","E">>
InSuffix       == <<" ","i","n">>
CmSuffix       == <<" ","c","m">>

\* the placeholder written for an empty slot only, a blank one kept
restrictionsNoTrim(d) == IF d[DCB] # <<>> THEN d[DCB] ELSE NONE

\* data.DCB && data.DCB.trim() !== "" ? data.DCB : "NONE"
restrictions(d) == IF d[DCB] # <<>> /\ trim(d[DCB]) # <<>> THEN d[DCB] ELSE NONE
endorsements(d) == IF d[DCD] # <<>> /\ trim(d[DCD]) # <<>> THEN d[DCD] ELSE NONE

\* ' in' appended to every height
heightValAlwaysIn(d) == d[DAU] \o InSuffix

\* data.DAU.endsWith(' in') || data.DAU.endsWith(' cm') ? data.DAU : `${data.DAU} in`
heightVal(d) ==
    IF endsWith(d[DAU], InSuffix) \/ endsWith(d[DAU], CmSuffix)
    THEN d[DAU] ELSE d[DAU] \o InSuffix

\* the 26 elements appended to sub, in the order of the sub += statements,
\* each as <<identifier, emitted value>>
subElements(d) ==
    << <<DDA, d[DDA]>>, <<DEB, d[DEB]>>, <<DAQ, d[DAQ]>>, <<DCS, d[DCS]>>,
       <<DDE, <<>>>>,   <<DAC, d[DAC]>>, <<DDF, <<>>>>,   <<DAD, d[DAD]>>,
       <<DDG, <<>>>>,   <<DCA, d[DCA]>>,
       <<DCB, restrictions(d)>>, <<DCD, endorsements(d)>>,
       <<DBA, d[DBA]>>, <<DBB, d[DBB]>>, <<DBC, d[DBC]>>, <<DAY, d[DAY]>>,
       <<DAZ, d[DAZ]>>, <<DAU, heightVal(d)>>,
       <<DAW, d[DAW]>>, <<DAG, d[DAG]>>, <<DAI, d[DAI]>>, <<DAJ, d[DAJ]>>,
       <<DAK, d[DAK]>>, <<DCF, d[DCF]>>, <<DCG, d[DCG]>>, <<DBD, d[DBD]>> >>

\* one statement  sub += `XXX${value}\n`
subLine(e) == e[1] \o e[2] \o <<LF>>

\* the element lines without the subfile type before them
subWithoutType(d) ==
    LET es == subElements(d)
    IN  concat([i \in 1..Len(es) |-> subLine(es[i])])

\* the subfile body: "DL" followed by the element lines
sub(d) ==
    LET es == subElements(d)
    IN  SubfileType \o concat([i \in 1..Len(es) |-> subLine(es[i])])

subfileOffsetVal == 21 + 10
subfileLengthVal(d) == Len(sub(d)) + 1

\* the offset written without its zero padding
offsetStrUnpadded == toString(subfileOffsetVal)

offsetStr == padStart(toString(subfileOffsetVal), 4)
lenStr(d) == padStart(toString(subfileLengthVal(d)), 4)

\* complianceInd .. Entries: everything before the subfile designator
header(d) ==
    complianceInd \o dataElementSep \o recordSep \o segmentTerm \o fileType
        \o d[IIN] \o d[Version] \o JurVersion \o Entries

designator(d) == SubfileType \o offsetStr \o lenStr(d)

generateAAMVAString(d) == header(d) \o designator(d) \o sub(d) \o segmentTerm

----------------------------------------------------------------------------
(* The Element Catalog: ELEMENT_MAP, in declaration order.  A pattern is   *)
(* named by its source text; regexTest gives its meaning.                  *)

NoRegex == "none"

ELEMENT_MAP ==
    << [elId |-> DAQ, desc |-> "License Number",     formKey |-> DAQ, regex |-> "/^[A-Z0-9]+$/i"],
       [elId |-> DBA, desc |-> "Expiration Date",    formKey |-> DBA, regex |-> "/^\\d{8}$/"],
       [elId |-> DCS, desc |-> "Last Name",          formKey |-> DCS, regex |-> "/^[A-Z\\s-]+$/i"],
       [elId |-> DAC, desc |-> "First Name",         formKey |-> DAC, regex |-> "/^[A-Z\\s-]+$/i"],
       [elId |-> DAD, desc |-> "Middle Name",        formKey |-> DAD, regex |-> NoRegex],
       [elId |-> DBB, desc |-> "Date of Birth",      formKey |-> DBB, regex |-> "/^\\d{8}$/"],
       [elId |-> DBD, desc |-> "Issue Date",         formKey |-> DBD, regex |-> "/^\\d{8}$/"],
       [elId |-> DEB, desc |-> "File Creation Date", formKey |-> DEB, regex |-> "/^\\d{8}$/"],
       [elId |-> DDA, desc |-> "Compliance Type",    formKey |-> DDA, regex |-> "/^[F|N]$/"],
       [elId |-> DAG, desc |-> "Address Street",     formKey |-> DAG, regex |-> NoRegex],
       [elId |-> DAI, desc |-> "City",               formKey |-> DAI, regex |-> NoRegex],
       [elId |-> DAJ, desc |-> "State Code",         formKey |-> DAJ, regex |-> "/^[A-Z]{2}$/"],
       [elId |-> DAK, desc |-> "Zip Code",           formKey |-> DAK, regex |-> "/^[0-9-]{5,11}$/"],
       [elId |-> DCA, desc |-> "Class",              formKey |-> DCA, regex |-> NoRegex],
       [elId |-> DBC, desc |-> "Sex",                formKey |-> DBC, regex |-> "/^[12X]$/"],
       [elId |-> DAU, desc |-> "Height",             formKey |-> DAU, regex |-> NoRegex],
       [elId |-> DAW, desc |-> "Weight",             formKey |-> DAW, regex |-> NoRegex],
       [elId |-> DAY, desc |-> "Eye Color",          formKey |-> DAY, regex |-> "/^[A-Z]{3}$/"],
       [elId |-> DAZ, desc |-> "Hair Color",         formKey |-> DAZ, regex |-> "/^[A-Z]{3}$/"],
       [elId |-> DCB, desc |-> "Restrictions",       formKey |-> DCB, regex |-> NoRegex],
       [elId |-> DCD, desc |-> "Endorsements",       formKey |-> DCD, regex |-> NoRegex],
       [elId |-> DCF, desc |-> "Doc Discriminator",  formKey |-> DCF, regex |-> NoRegex],
       [elId |-> DCG, desc |-> "Country",            formKey |-> DCG, regex |-> "/^[A-Z]{3}$/"] >>

AllIn(s, chars) == \A i \in 1..Len(s) : s[i] \in chars

\* every pattern given the global flag
regexFlagsGlobal(regex) == {"g", "i"}

\* the flags of the patterns of ELEMENT_MAP
regexFlags(regex) ==
    CASE regex = "/^[A-Z0-9]+$/i"  -> {"i"}
      [] regex = "/^[A-Z\\s-]+$/i" -> {"i"}
      [] OTHER -> {}

\* new RegExp: lastIndex is 0
FreshLastIndex == [i \in 1..Len(ELEMENT_MAP) |-> 0]

\* whether s matches a pattern of ELEMENT_MAP, searched from its start
regexTest(regex, s) ==
    CASE regex = "/^[A-Z0-9]+$/i"   -> Len(s) >= 1 /\ AllIn(s, UpperAZ \cup LowerAZ \cup Digit)
      [] regex = "/^\\d{8}$/"       -> Len(s) = 8 /\ AllIn(s, Digit)
      [] regex = "/^[A-Z\\s-]+$/i"  -> Len(s) >= 1 /\ AllIn(s, UpperAZ \cup LowerAZ \cup WhiteSpace \cup {"-"})
      [] regex = "/^[F|N]$/"        -> Len(s) = 1 /\ AllIn(s, {"F", "|", "N"})
      [] regex = "/^[A-Z]{2}$/"     -> Len(s) = 2 /\ AllIn(s, UpperAZ)
      [] regex = "/^[0-9-]{5,11}$/" -> Len(s) \in 5..11 /\ AllIn(s, Digit \cup {"-"})
      [] regex = "/^[12X]$/"        -> Len(s) = 1 /\ AllIn(s, {"1", "2", "X"})
      [] regex = "/^[A-Z]{3}$/"     -> Len(s) = 3 /\ AllIn(s, UpperAZ)

\* RegExp.prototype.test on a pattern whose lastIndex is li: whether it
\* finds a match, and the lastIndex it leaves.  A global or sticky pattern
\* searches from li on and stores where it stopped; the patterns start
\* with ^, so a search from li > 0 finds nothing.
regexExec(regex, s, li) ==
    IF regexFlags(regex) \cap {"g", "y"} # {}
    THEN LET found == li = 0 /\ regexTest(regex, s)
         IN  [found |-> found, lastIndex |-> IF found THEN Len(s) ELSE 0]
    ELSE [found |-> regexTest(regex, s), lastIndex |-> li]

----------------------------------------------------------------------------
(* The Decoder: parseAAMVARaw.  The result object is a function from the   *)
(* keys it holds to their values.                                          *)

EmptyMap == [k \in {} |-> <<>>]

\* an entry written only when the key has none yet
putIfAbsent(result, key, val) ==
    [k \in DOMAIN result \cup {key} |-> IF k \in DOMAIN result THEN result[k] ELSE val]

\* result[key] = val
put(result, key, val) ==
    [k \in DOMAIN result \cup {key} |-> IF k = key THEN val ELSE result[k]]

\* the compliance indicator looked for anywhere in the record
headerCheckAnywhere(raw) == includes(raw, <<"@">>)

\* raw.startsWith('@')
headerCheck(raw) == startsWith(raw, <<"@">>)

\* the tag test knowing the subfile type DL only
subfileTagTestDLOnly(line) ==
    /\ Len(line) >= 5
    /\ SubSeq(line, 1, 2) = <<"D","L">>
    /\ \A i \in 3..5 : line[i] \in UpperAZ

\* /^(DL|ID|EN)[A-Z]{3}/.test(line)
subfileTagTest(line) ==
    /\ Len(line) >= 5
    /\ SubSeq(line, 1, 2) \in {<<"D","L">>, <<"I","D">>, <<"E","N">>}
    /\ \A i \in 3..5 : line[i] \in UpperAZ

\* if (/^(DL|ID|EN)[A-Z]{3}/.test(line)) line = line.substring(2)
stripTag(line) == IF subfileTagTest(line) THEN substring(line, 2) ELSE line

\* line.match(/^([A-Z]{3})(.*)$/) is not null
elementMatch(line) ==
    /\ Len(line) >= 3
    /\ \A i \in 1..3 : line[i] \in UpperAZ
    /\ \A i \in 4..Len(line) : line[i] \notin LineTerminator

\* the value recorded as matched, without trim()
parseLineValueUntrimmed(result, rawLine) ==
    LET line == stripTag(trim(rawLine))
    IN  IF Len(line) < 4 THEN result
        ELSE IF elementMatch(line)
             THEN put(result, SubSeq(line, 1, 3), substring(line, 3))
             ELSE result

\* a line recorded whatever its length
parseLineAnyLength(result, rawLine) ==
    LET line == stripTag(trim(rawLine))
    IN  IF elementMatch(line)
        THEN put(result, SubSeq(line, 1, 3), trim(substring(line, 3)))
        ELSE result

\* the body of lines.forEach(line => ...), as the result after the line
parseLine(result, rawLine) ==
    LET line == stripTag(trim(rawLine))
    IN  IF Len(line) < 4 THEN result
        ELSE IF elementMatch(line)
             THEN put(result, SubSeq(line, 1, 3), trim(substring(line, 3)))
             ELSE result

RECURSIVE parseLines(_, _, _)
parseLines(result, lines, i) ==
    IF i > Len(lines) THEN result
    ELSE parseLines(parseLine(result, lines[i]), lines, i + 1)

parseAAMVARaw(raw) ==
    IF ~headerCheck(raw) THEN EmptyMap
    ELSE LET cleanRaw == replaceCRbyLF(raw)
             lines    == split(cleanRaw, LF)
         IN  parseLines(EmptyMap, lines, 1)

----------------------------------------------------------------------------
(* The Reconciler: validateBarcode *)

\* the value of a missing property; no string equals it
Undefined == <<"<undefined>">>
EmptyLiteral    == <<"(","e","m","p","t","y",")">>
NotFoundLiteral == <<"N","o","t"," ","F","o","u","n","d">>
ANSI == <<"A","N","S","I">>

\* scannedData[elId]
lookup(scanned, elId) == IF elId \in DOMAIN scanned THEN scanned[elId] ELSE Undefined

\* !scannedVal
falsy(v) == v = Undefined \/ v = <<>>

\* v.toUpperCase().replace(/\s+/g, ' ').trim()
normalize(v) == trim(collapseSpaces(toUpperCase(v)))

\* rawString.startsWith('@') && rawString.includes('ANSI')
isValidSignature(raw) == startsWith(raw, <<"@">>) /\ includes(raw, ANSI)

\* the height compared like every other element
comparandsPlain(elId, scannedVal, formVal) ==
    <<normalize(scannedVal), normalize(IF falsy(formVal) THEN <<>> ELSE formVal)>>

\* the values compared for element elId: digits only for the height
comparands(elId, scannedVal, formVal) ==
    LET normScanned == normalize(scannedVal)
        normForm    == normalize(IF falsy(formVal) THEN <<>> ELSE formVal)
    IN  IF elId = DAU
        THEN <<stripNonDigits(normScanned), stripNonDigits(normForm)>>
        ELSE <<normScanned, normForm>>

\* a format failure kept when the values differ too
fieldStatusFormatFirst(config, scannedVal, formVal, li) ==
    LET cmp == comparands(config.elId, scannedVal, formVal)
    IN  IF config.regex # NoRegex /\ ~regexExec(config.regex, scannedVal, li).found
        THEN [status  |-> "INVALID_FORMAT",
              message |-> <<"Format mismatch for ", config.desc, ". Expected pattern.">>]
        ELSE IF cmp[1] # cmp[2]
        THEN [status  |-> "MISMATCH", message |-> <<"Data mismatch.">>]
        ELSE [status |-> "MATCH", message |-> <<>>]

\* status and msg of a field whose scanned value is present, li being the
\* lastIndex of config.regex when it is tested
fieldStatus(config, scannedVal, formVal, li) ==
    LET \* 1. Format Validation
        afterFormat ==
            IF config.regex # NoRegex /\ ~regexExec(config.regex, scannedVal, li).found
            THEN [status  |-> "INVALID_FORMAT",
                  message |-> <<"Format mismatch for ", config.desc, ". Expected pattern.">>]
            ELSE [status |-> "MATCH", message |-> <<>>]
        \* 2. Comparison Validation
        cmp == comparands(config.elId, scannedVal, formVal)
    IN  IF cmp[1] # cmp[2]
        THEN [status  |-> "MISMATCH",
              message |-> IF config.elId = DAU
                          THEN <<"Values differ: Form(", cmp[2], ") vs Scan(", cmp[1], ")">>
                          ELSE <<"Data mismatch.">>]
        ELSE afterFormat

\* the body of Object.entries(ELEMENT_MAP).forEach(...): the field pushed
fieldResult(config, scanned, form, li) ==
    LET scannedVal == lookup(scanned, config.elId)
        formVal    == form[config.formKey]
    IN  IF falsy(scannedVal)
        THEN [elementId    |-> config.elId,
              description  |-> config.desc,
              formValue    |-> IF falsy(formVal) THEN EmptyLiteral ELSE formVal,
              scannedValue |-> NotFoundLiteral,
              status       |-> "MISSING_IN_SCAN"]
        ELSE LET st == fieldStatus(config, scannedVal, formVal, li)
             IN  [elementId    |-> config.elId,
                  description  |-> config.desc,
                  formValue    |-> formVal,
                  scannedValue |-> scannedVal,
                  status       |-> st.status,
                  message      |-> st.message]

\* a report listing the elements found in the scan only
reportOfPresent(raw, scanned, currentFormData, lis) ==
    [isValidSignature |-> isValidSignature(raw),
     rawString        |-> raw,
     fields           |-> SelectSeq([i \in 1..Len(ELEMENT_MAP) |->
                                        fieldResult(ELEMENT_MAP[i], scanned, currentFormData, lis[i])],
                                    LAMBDA f : f.status # "MISSING_IN_SCAN")]

\* validateBarcode after its first statement, scanned being parseAAMVARaw(raw)
\* and lis the lastIndex of the catalog's patterns when it is called
reportOf(raw, scanned, currentFormData, lis) ==
    [isValidSignature |-> isValidSignature(raw),
     rawString        |-> raw,
     fields           |-> [i \in 1..Len(ELEMENT_MAP) |->
                              fieldResult(ELEMENT_MAP[i], scanned, currentFormData, lis[i])]]

\* the lastIndex of the catalog's patterns after validateBarcode: a pattern
\* is tested when its element has a scanned value
lastIndexAfter(scanned, lis) ==
    [i \in 1..Len(ELEMENT_MAP) |->
        LET config     == ELEMENT_MAP[i]
            scannedVal == lookup(scanned, config.elId)
        IN  IF ~falsy(scannedVal) /\ config.regex # NoRegex
            THEN regexExec(config.regex, scannedVal, lis[i]).lastIndex
            ELSE lis[i]]

\* validateBarcode called when no pattern has been used yet
validateBarcode(raw, currentFormData) ==
    reportOf(raw, parseAAMVARaw(raw), currentFormData, FreshLastIndex)

----------------------------------------------------------------------------
(* Inputs.  The Attribute Records are the form's initial state, that state *)
(* after a jurisdiction was selected, and the latter with one slot         *)
(* replaced by each of a set of values; the scanned texts are short        *)
(* records assembled from lines, and a few whole records.                  *)

MaxScanLines == 2      \* lines after the "@" line in an assembled scan
LongMin == 9730        \* shortest and longest street of the oversized records
LongMax == 9850
MaxSwapPositions == 5  \* separators of a record exchanged in every combination
MaxEdits == 3          \* handler runs of the form in one behaviour

\* useState<DLFormData>({...}) with DEB as set by the mount effect
InitialFormData ==
    [k \in Slots |->
        CASE k = DAJ -> <<>>  [] k = DCG -> <<>>  [] k = IIN -> <<>>  [] k = Version -> <<>>
          [] k = DDA -> <<"F">>
          [] k = DEB -> <<"1","1","0","1","2","0","2","6">>
          [] k = DAQ -> <<"D","1","2","3","4","5","6","7","8">>
          [] k = DBA -> <<"0","8","0","9","2","0","2","8">>
          [] k = DCS -> <<"D","o","e">>
          [] k = DAC -> <<"J","o","h","n">>
          [] k = DAD -> <<"A">>
          [] k = DBB -> <<"0","1","1","5","1","9","8","5">>
          [] k = DBD -> <<"0","1","1","5","2","0","2","3">>
          [] k = DAG -> <<"1","2","3"," ","M","a","i","n"," ","S","t">>
          [] k = DAI -> <<"A","n","y","t","o","w","n">>
          [] k = DAK -> <<"9","0","2","1","0">>
          [] k = DCA -> <<"C">>
          [] k = DBC -> <<"1">>
          [] k = DAU -> <<"0","7","0">>
          [] k = DAW -> <<"1","6","5">>
          [] k = DAY -> <<"B","R","O">>
          [] k = DAZ -> <<"B","R","O">>
          [] k = DCB -> NONE
          [] k = DCD -> NONE
          [] k = DCF -> <<"1","1","2","2","3","3","4","4","5","5","6","6">>]

\* a Jurisdiction of the JURISDICTIONS list
California == [name |-> <<"C","a","l","i","f","o","r","n","i","a">>, code |-> <<"C","A">>, iin |-> <<"6","3","6","0","1","4">>,
               version |-> <<"1","0">>, country |-> <<"U","S","A">>]

\* setFormData(prev => ({...prev, DAJ: jur.code, DCG: jur.country || 'USA', IIN: jur.iin, Version: jur.version}))
selectJurisdiction(prev, jur) ==
    [prev EXCEPT ![DAJ] = jur.code,
                 ![DCG] = IF falsy(jur.country) THEN <<"U","S","A">> ELSE jur.country,
                 ![IIN] = jur.iin,
                 ![Version] = jur.version]

\* setFormData(prev => ({ ...prev, [name]: value }))
setField(prev, name, value) == [prev EXCEPT ![name] = value]

BaseRecord == selectJurisdiction(InitialFormData, California)

LongValue(n) == [i \in 1..n |-> "X"]

\* records whose street is thousands of characters long
LongRecords == {setField(BaseRecord, DAG, LongValue(n)) : n \in LongMin..LongMax}

california == <<"c","a","l","i","f","o","r","n","i","a">>

AltValues ==
    { <<>>, <<" ">>, <<" ","A","B"," ">>, <<"a","b">>, <<"A",LF,"B">>, <<"A",LS,"B">>, ANSI, california,
      <<"7","0">>, <<"0","7","0"," ","i","n">>, <<"1","2","3","4","5","6","7","8">>, <<"N">> }

\* heights with a unit, with a unit not set off by a space or in capitals,
\* and the units alone
HeightValues ==
    {<<"1","7","0"," ","c","m">>, <<"7","0","i","n">>, <<"0","7","0"," ","I","N">>, <<" ","i","n">>, <<"5"," ","i","n"," ","c","m">>, <<"0","7","0"," ","i","n"," ">>}

Records ==
    {InitialFormData, BaseRecord}
        \cup {setField(BaseRecord, k, v) : k \in Slots, v \in AltValues}
        \cup {setField(BaseRecord, DAU, h) : h \in HeightValues}

\* the reference records the scanned texts are reconciled against
ScanRefs ==
    {BaseRecord, setField(BaseRecord, DAJ, california),
     setField(BaseRecord, DAU, <<"0","7","0"," ","i","n">>)}

ScanTags   == {<<>>, <<"D","L">>, <<"I","D">>, <<"E","N">>}
ScanIds    == {DAJ}
ScanValues == {<<"C","A">>, <<" ">>, california \o <<" ">>}
ScanLines  ==
    {t \o i \o v : t \in ScanTags, i \in ScanIds, v \in ScanValues}
        \cup {<<"D","L","D","D","A","F">>, <<>>}

RECURSIVE joinLines(_, _)
joinLines(ls, sep) == IF ls = <<>> THEN <<>> ELSE <<sep>> \o Head(ls) \o joinLines(Tail(ls), sep)

LineSeqs == UNION {[1..n -> ScanLines] : n \in 0..MaxScanLines}

AssembledScans == {<<"@">> \o joinLines(ls, sep) : ls \in LineSeqs, sep \in {LF, CR}}

\* a record whose file type is not ANSI and whose last name is "ANSI"
AnsiInDataOnly ==
    <<"@",LF,RS,CR,"A","A","M","V","A","6","3","6","0","1","4","1","0","0","0","0","1">> \o SubfileType \o offsetStr \o <<"0","0","1","6">>
        \o SubfileType \o DCS \o ANSI \o <<LF, CR>>

\* records holding a height line only
HeightScans ==
    { <<"@",LF>> \o DAU \o h \o <<LF>> :
        h \in { <<"7","0">>, <<"0","7","0">>, <<"0","7","0"," ","c","m">>, <<"0","7","1"," ","i","n">> } }

WholeScans ==
    HeightScans \cup
    { <<>>,
      <<"D","A","Q","1","2","3",LF>>,
      <<" ","@",LF,"D","A","J","C","A">>,
      Tail(generateAAMVAString(BaseRecord)),
      AnsiInDataOnly }

ScanInputs == AssembledScans \cup WholeScans

----------------------------------------------------------------------------
(* The state machine: a record is encoded or a scanned text arrives, the   *)
(* scan may have lost one data line, and the raw record is reconciled      *)
(* against the Attribute Record.                                           *)

NoElement == <<>>
NoReport  == [isValidSignature |-> FALSE, rawString |-> <<>>, fields |-> <<>>]

\* useState<Jurisdiction | null>(null)
NoJurisdiction ==
    [name |-> <<>>, code |-> <<>>, iin |-> <<>>, version |-> <<>>, country |-> <<>>]

\* nothing requested from the analysis service, nothing returned by it
NoError    == [nullish |-> FALSE, message |-> Undefined, messageIsString |-> FALSE]
NoResponse == [kind |-> "none", text |-> Undefined, error |-> NoError]
NoResult   == [summary |-> Undefined, document_type |-> Undefined,
               fields |-> Undefined, tables |-> Undefined]
NoAnalysis == [kind |-> "none", class |-> "none", message |-> <<>>, value |-> NoResult]

\* the analysis service before its first call, without an API key
AnalyzerUnused ==
    /\ ai = "null"
    /\ apiKey = <<>>
    /\ call = "idle"
    /\ response = NoResponse
    /\ analysis = NoAnalysis

CatalogIds == {ELEMENT_MAP[i].elId : i \in 1..Len(ELEMENT_MAP)}

\* raw without the characters from..to
removeRange(raw, from, to) == SubSeq(raw, 1, from - 1) \o SubSeq(raw, to + 1, Len(raw))

\* the encoder's output for d without the data line (identifier, value, LF)
\* of element elId; the lines are located from the end of the record
removeDataLine(raw, d, elId) ==
    LET es    == subElements(d)
        idx   == CHOOSE i \in 1..Len(es) : es[i][1] = elId
        after == concat([j \in 1..(Len(es) - idx) |-> subLine(es[idx + j])])
        to    == Len(raw) - 1 - Len(after)
        from  == to - Len(subLine(es[idx])) + 1
    IN  removeRange(raw, from, to)

----------------------------------------------------------------------------
(* The OCR field extractor of src/utils/ocr.ts, as far as it can write the *)
(* slots of the form: the address section of parseOCRData is computed from *)
(* the recognized text; what its other sections (names, dates, physical    *)
(* description, licence number) extract is an input, a partial record over *)
(* the slots they assign.                                                  *)

Letter == UpperAZ \cup LowerAZ
WordChar == Letter \cup Digit \cup {"_"}

\* a second Jurisdiction, without a country
Texas == [name |-> <<"T","e","x","a","s">>, code |-> <<"T","X">>, iin |-> <<"6","3","6","0","1","5">>,
          version |-> <<"1","0">>, country |-> <<>>]

\* a jurisdiction whose name is part of another's, that other one, one with
\* a name as long as Virginia's, and the earlier format of a jurisdiction
Virginia ==
    [name |-> <<"V","i","r","g","i","n","i","a">>, code |-> <<"V","A">>, iin |-> <<"6","3","6","0","0","0">>,
     version |-> <<"1","0">>, country |-> <<"U","S","A">>]
WestVirginia ==
    [name |-> <<"W","e","s","t"," ","V","i","r","g","i","n","i","a">>, code |-> <<"W","V">>, iin |-> <<"6","3","6","0","6","1">>,
     version |-> <<"1","0">>, country |-> <<"U","S","A">>]
Colorado ==
    [name |-> <<"C","o","l","o","r","a","d","o">>, code |-> <<"C","O">>, iin |-> <<"6","3","6","0","2","0">>,
     version |-> <<"1","0">>, country |-> <<"U","S","A">>]
TexasOld ==
    [name |-> <<"T","e","x","a","s"," ","(","O","l","d",")">>, code |-> <<"T","X">>, iin |-> <<"6","3","6","0","1","5">>,
     version |-> <<"0","8">>, country |-> <<"U","S","A">>]

JURISDICTIONS == <<California, TexasOld, Texas, Virginia, Colorado, WestVirginia>>

RECURSIVE sortByNameLength(_)
\* Array.prototype.sort with (a, b) => b.name.length - a.name.length: longest
\* name first, jurisdictions with names of one length in their earlier order
sortByNameLength(js) ==
    IF js = <<>> THEN <<>>
    ELSE LET rest   == sortByNameLength(SubSeq(js, 1, Len(js) - 1))
             last   == js[Len(js)]
             before == Cardinality({i \in 1..Len(rest) : Len(rest[i].name) >= Len(last.name)})
         IN  SubSeq(rest, 1, before) \o <<last>> \o SubSeq(rest, before + 1, Len(rest))

\* the jurisdictions whose name does not include "Old", in the order of the list
candidatesUnsorted ==
    SelectSeq(JURISDICTIONS, LAMBDA j : ~includes(j.name, <<"O","l","d">>))

\* the jurisdictions whose name does not include "Old", longest name first
candidates ==
    sortByNameLength(SelectSeq(JURISDICTIONS, LAMBDA j : ~includes(j.name, <<"O","l","d">>)))

\* JURISDICTIONS after detectJurisdiction: sort works in place on the array
\* filter has built, not on the shared one
jurisdictionsAfterDetect(shared) == shared

\* detectJurisdiction: the first candidate whose name, in upper case, occurs
\* in the text in upper case; null when there is none
detectJurisdiction(text) ==
    LET upperText == toUpperCase(text)
        hits == SelectSeq(candidates, LAMBDA j : includes(upperText, toUpperCase(j.name)))
    IN  IF hits = <<>> THEN NoJurisdiction ELSE hits[1]

\* text.split('\n').map(l => l.trim()).filter(l => l.length > 0)
ocrLines(text) ==
    LET ls == split(text, LF)
    IN  SelectSeq([i \in 1..Len(ls) |-> trim(ls[i])], LAMBDA l : Len(l) > 0)

\* /^8\.\s/.test(line)
streetTest(line) ==
    Len(line) >= 3 /\ line[1] = "8" /\ line[2] = "." /\ line[3] \in WhiteSpace

\* the number of characters of s from position p on that are in chars
RECURSIVE runLength(_, _, _)
runLength(s, p, chars) ==
    IF p <= Len(s) /\ s[p] \in chars THEN 1 + runLength(s, p + 1, chars) ELSE 0

\* the end of (\d{5}(?:[- ]?\d{4})?) matched at position p, or 0
zipEnd(s, p) ==
    IF runLength(s, p, Digit) < 5 THEN 0
    ELSE IF p + 5 <= Len(s) /\ s[p + 5] \in {"-", " "} /\ runLength(s, p + 6, Digit) >= 4
         THEN p + 9
         ELSE IF runLength(s, p + 5, Digit) >= 4 THEN p + 8 ELSE p + 4

\* /^([A-Z\s]+)[,.]?\s+([A-Z]{2})\s+(\d{5}(?:[- ]?\d{4})?)/i with the first
\* group g characters long: the groups, or no match
addressPartsAt(line, g) ==
    LET q  == IF g + 1 <= Len(line) /\ line[g + 1] \in {",", "."} THEN g + 2 ELSE g + 1
        w1 == runLength(line, q, WhiteSpace)
        st == q + w1
        w2 == runLength(line, st + 2, WhiteSpace)
        z  == st + 2 + w2
    IN  IF /\ w1 >= 1
           /\ runLength(line, st, Letter) >= 2
           /\ w2 >= 1
           /\ zipEnd(line, z) > 0
        THEN [matched |-> TRUE, city |-> SubSeq(line, 1, g), state |-> SubSeq(line, st, st + 1),
              zip |-> SubSeq(line, z, zipEnd(line, z))]
        ELSE [matched |-> FALSE, city |-> <<>>, state |-> <<>>, zip |-> <<>>]

\* cityStateLine.match(...): the first group is as long as a match allows
addressParts(line) ==
    LET most == runLength(line, 1, Letter \cup WhiteSpace)
        fits == {g \in 1..most : addressPartsAt(line, g).matched}
    IN  IF fits = {} THEN addressPartsAt(line, 0)
        ELSE addressPartsAt(line, CHOOSE g \in fits : \A h \in fits : h <= g)

\* s.padEnd(9, '0').slice(0, 9)
padEnd9(s) == SubSeq(s \o <<"0","0","0","0","0","0","0","0","0">>, 1, 9)

\* fullText.match(/\b(\d{5})[- ]?(\d{4})?\b/) at position p: the value
\* zipMatch[1] + (zipMatch[2] || "0000"), or no match
zipMatchAt(s, p) ==
    LET boundaryBefore == p = 1 \/ s[p - 1] \notin WordChar
        five  == runLength(s, p, Digit) >= 5
        sep   == p + 5 <= Len(s) /\ s[p + 5] \in {"-", " "}
        endsAt(e) == e = Len(s) \/ s[e + 1] \notin WordChar
        none  == [matched |-> FALSE, value |-> <<>>]
    IN  IF ~(boundaryBefore /\ five) THEN none
        ELSE IF sep /\ runLength(s, p + 6, Digit) >= 4 /\ endsAt(p + 9)
             THEN [matched |-> TRUE, value |-> SubSeq(s, p, p + 4) \o SubSeq(s, p + 6, p + 9)]
        ELSE IF sep /\ p + 6 <= Len(s) /\ s[p + 6] \in WordChar
             THEN [matched |-> TRUE, value |-> SubSeq(s, p, p + 4) \o <<"0","0","0","0">>]
        ELSE IF runLength(s, p + 5, Digit) >= 4 /\ endsAt(p + 8)
             THEN [matched |-> TRUE, value |-> SubSeq(s, p, p + 8)]
        ELSE IF endsAt(p + 4)
             THEN [matched |-> TRUE, value |-> SubSeq(s, p, p + 4) \o <<"0","0","0","0">>]
        ELSE none

\* the leftmost match of the zip pattern in s
zipMatch(s) ==
    LET at == {p \in 1..Len(s) : zipMatchAt(s, p).matched}
    IN  IF at = {} THEN zipMatchAt(s, Len(s) + 1)
        ELSE zipMatchAt(s, CHOOSE p \in at : \A r \in at : p <= r)

\* a Partial<DLFormData>: a function on the slots it holds
NoUpdates == [k \in {} |-> <<>>]

\* { ...prev, ...updates }
spread(prev, updates) ==
    [k \in DOMAIN prev \cup DOMAIN updates |-> IF k \in DOMAIN updates THEN updates[k] ELSE prev[k]]

\* section 3 of parseOCRData: the updates of the address block
addressUpdates(text) ==
    LET lines    == ocrLines(text)
        fullText == toUpperCase(text)
        found    == {i \in 1..Len(lines) : streetTest(lines[i])}
        idx      == IF found = {} THEN 0 ELSE CHOOSE i \in found : \A j \in found : i <= j
        street   == IF idx = 0 THEN NoUpdates
                    ELSE put(NoUpdates, DAG, trim(substring(lines[idx], 2)))
    IN  IF idx # 0 /\ idx + 1 <= Len(lines)
        THEN LET parts == addressParts(lines[idx + 1])
                 city  == trim(parts.city)
             IN  IF parts.matched
                 THEN put(put(put(street,
                        DAI, IF endsWith(city, <<",">>) THEN SubSeq(city, 1, Len(city) - 1) ELSE city),
                        DAJ, toUpperCase(parts.state)),
                        DAK, padEnd9(stripNonDigits(parts.zip)))
                 ELSE street
        ELSE LET zm == zipMatch(fullText)
             IN  IF zm.matched THEN put(street, DAK, zm.value) ELSE street

\* parseOCRData(text), others being what the sections other than the
\* address block extracted
parseOCRData(text, others) == spread(others, addressUpdates(text))

\* the form with no handler run and none in flight
FormIdle ==
    /\ isScanning = FALSE
    /\ edits = 0
    /\ isValidating = FALSE
    /\ validation = "idle"
    /\ capturedData = InitialFormData
    /\ scanPc = "idle"
    /\ worker = "none"

NoDetection == [text |-> <<>>, called |-> FALSE, result |-> NoJurisdiction]

\* detectJurisdiction not called yet
DetectUnused ==
    /\ jurisdictions = JURISDICTIONS
    /\ detection = NoDetection

\* useDocumentAnalysis as constructed, no call made
HookUnused ==
    /\ hookStatus = "IDLE"
    /\ hookResult = "null"
    /\ hookError = "null"
    /\ imageUrls = <<>>
    /\ calls = <<>>

\* the codec before any call: nothing generated, scanned or validated
CodecUnused ==
    /\ rawString = <<>>
    /\ origin = "none"
    /\ removed = NoElement
    /\ scannedData = EmptyMap
    /\ report = NoReport
    /\ pc = "input"
    /\ lastIndex = FreshLastIndex

Init ==
    /\ data \in Records
    /\ CodecUnused
    /\ selectedJurisdiction = IF data = InitialFormData THEN NoJurisdiction ELSE California
    /\ FormIdle
    /\ DetectUnused
    /\ HookUnused
    /\ AnalyzerUnused

\* handleGenerate: const rawString = generateAAMVAString(formData)
Generate ==
    /\ pc = "input"
    /\ rawString' = generateAAMVAString(data)
    /\ origin' = "encoder"
    /\ pc' = "raw"
    /\ UNCHANGED <<data, removed, scannedData, report, lastIndex, formVars, aiVars, detectVars, hookVars>>

\* handleValidateScan: const rawText = result.getText(), any text at all
Scan(text) ==
    /\ pc = "input"
    /\ data \in ScanRefs
    /\ rawString' = text
    /\ origin' = "scan"
    /\ pc' = "raw"
    /\ UNCHANGED <<data, removed, scannedData, report, lastIndex, formVars, aiVars, detectVars, hookVars>>

\* the scanned text is the encoded record with one data line lost
RemoveLine(elId) ==
    /\ pc = "raw"
    /\ origin = "encoder"
    /\ data \in ScanRefs
    /\ removed = NoElement
    /\ rawString' = removeDataLine(rawString, data, elId)
    /\ removed' = elId
    /\ UNCHANGED <<data, origin, scannedData, report, pc, lastIndex, formVars, aiVars, detectVars, hookVars>>

\* const report = validateBarcode(rawText, formData), for the first time or
\* again; scannedData is the local of validateBarcode that holds
\* parseAAMVARaw(rawString), and the patterns of the catalog are tested as
\* the calls before left them
Validate ==
    /\ pc \in {"raw", "validated"}
    /\ scannedData' = parseAAMVARaw(rawString)
    /\ report' = reportOf(rawString, scannedData', data, lastIndex)
    /\ lastIndex' = lastIndexAfter(scannedData', lastIndex)
    /\ pc' = "validated"
    /\ UNCHANGED <<data, rawString, origin, removed, formVars, aiVars, detectVars, hookVars>>

Next ==
    \/ Generate
    \/ \E text \in ScanInputs : Scan(text)
    \/ \E elId \in CatalogIds : RemoveLine(elId)
    \/ Validate

Spec == Init /\ [][Next]_vars

\* the encoder alone, on the oversized records
InitLength ==
    /\ data \in LongRecords
    /\ CodecUnused
    /\ selectedJurisdiction = California
    /\ FormIdle
    /\ DetectUnused
    /\ HookUnused
    /\ AnalyzerUnused

NextLength == Generate

SpecLength == InitLength /\ [][NextLength]_vars

----------------------------------------------------------------------------
(* The form of App.tsx: a jurisdiction is selected from the list or by the *)
(* OCR scan of a photo, the inputs of the form edit the Attribute Record,  *)
(* and Back returns to the list.  A photo scan is asynchronous: the        *)
(* handlers of the page run between its start and its completion.          *)

\* the name attributes of the inputs and selects of the form
FormInputs == {DAQ, DBA, DCS, DAC, DAD, DBB, DBD, DAG, DAI, DAK, DCA, DBC, DAU,
               DAW, DAY, DAZ, DCB, DCD, DCF}
TypedValues == {<<"X">>}

\* the texts the OCR engine recognizes
OcrTexts ==
    {<<"8","."," ","1"," ","E","L","M"," ","S","T",LF,"D","A","L","L","A","S",","," ","T","X"," ","7","5","2","1","7">>,
     <<"C","a","l","i","f","o","r","n","i","a",LF,"8","."," ","1"," ","E","L","M"," ","S","T",LF,"L","O","S"," ","A","N","G","E","L","E","S"," ","C","A"," ","9","0","0","0","1","-","1","2","3","4">>,
     <<"T","E","X","A","S"," ","D","R","I","V","E","R"," ","L","I","C","E","N","S","E">>,
     <<"8","."," ","1"," ","E","L","M"," ","S","T">>,
     <<"8","."," ","1"," ","E","L","M"," ","S","T",LF,"A","P","T"," ","2",LF,"Z","I","P"," ","9","0","2","1","0">>,
     <<"Z","I","P"," ","9","0","2","1","0"," ","1","2","3","4","X">>,
     <<"H","E","L","L","O">>}

\* what the sections of parseOCRData other than the address block extract
OtherUpdates == {NoUpdates, put(NoUpdates, DCS, <<"S","M","I","T","H">>)}

InitForm ==
    /\ data = InitialFormData
    /\ CodecUnused
    /\ selectedJurisdiction = NoJurisdiction
    /\ FormIdle
    /\ DetectUnused
    /\ HookUnused
    /\ AnalyzerUnused

\* setGeneratedString(""); setValidationReport(null)
clearOutput ==
    /\ rawString' = <<>>
    /\ report' = NoReport
    /\ UNCHANGED <<origin, removed, scannedData, pc, lastIndex>>

\* handleSelectJurisdiction(jur), from a button of the jurisdiction list
SelectJurisdiction(jur) ==
    /\ edits < MaxEdits
    /\ selectedJurisdiction = NoJurisdiction
    /\ selectedJurisdiction' = jur
    /\ data' = selectJurisdiction(data, jur)
    /\ clearOutput
    /\ edits' = edits + 1
    /\ UNCHANGED <<isScanning, validateVars, workerVars, aiVars, detectVars, hookVars>>

\* handleBack, from the Back button shown while a jurisdiction is selected
Back ==
    /\ edits < MaxEdits
    /\ selectedJurisdiction # NoJurisdiction
    /\ selectedJurisdiction' = NoJurisdiction
    /\ clearOutput
    /\ edits' = edits + 1
    /\ UNCHANGED <<data, isScanning, validateVars, workerVars, aiVars, detectVars, hookVars>>

\* handleChange, from an input of the form
Change(name, value) ==
    /\ edits < MaxEdits
    /\ selectedJurisdiction # NoJurisdiction
    /\ data' = setField(data, name, value)
    /\ edits' = edits + 1
    /\ UNCHANGED <<codecVars, selectedJurisdiction, isScanning, validateVars, workerVars, aiVars, detectVars, hookVars>>

\* handleGenerate, from the Generate button of the form
HandleGenerate ==
    /\ edits < MaxEdits
    /\ selectedJurisdiction # NoJurisdiction
    /\ rawString' = generateAAMVAString(data)
    /\ report' = NoReport
    /\ edits' = edits + 1
    /\ UNCHANGED <<data, origin, removed, scannedData, pc, lastIndex, selectedJurisdiction,
                   isScanning, validateVars, workerVars, aiVars, detectVars, hookVars>>

\* handleValidateCurrent, from the Verify button shown with the generated
\* record: if (!generatedString) return
HandleValidateCurrent ==
    /\ edits < MaxEdits
    /\ selectedJurisdiction # NoJurisdiction
    /\ rawString # <<>>
    /\ scannedData' = parseAAMVARaw(rawString)
    /\ report' = reportOf(rawString, scannedData', data, lastIndex)
    /\ lastIndex' = lastIndexAfter(scannedData', lastIndex)
    /\ edits' = edits + 1
    /\ UNCHANGED <<data, rawString, origin, removed, pc, selectedJurisdiction,
                   isScanning, validateVars, workerVars, aiVars, detectVars, hookVars>>

\* handleImageScan up to its first await; the file input is on the
\* jurisdiction list only
ImageScanStart ==
    /\ edits < MaxEdits
    /\ selectedJurisdiction = NoJurisdiction
    /\ ~isScanning
    /\ isScanning' = TRUE
    /\ scanPc' = "preprocessImage"
    /\ edits' = edits + 1
    /\ UNCHANGED <<data, codecVars, selectedJurisdiction, validateVars, worker, aiVars, detectVars, hookVars>>

\* await preprocessImage(file) resolved
ImagePreprocessed ==
    /\ scanPc = "preprocessImage"
    /\ scanPc' = "createWorker"
    /\ UNCHANGED <<data, codecVars, selectedJurisdiction, isScanning, edits, validateVars, worker, aiVars, detectVars, hookVars>>

\* await createWorker('eng') resolved
WorkerCreated ==
    /\ scanPc = "createWorker"
    /\ worker' = "created"
    /\ scanPc' = "recognize"
    /\ UNCHANGED <<data, codecVars, selectedJurisdiction, isScanning, edits, validateVars, aiVars, detectVars, hookVars>>

\* handleImageScan after worker.recognize resolved with rawText, to its end
ImageScanComplete(rawText, others) ==
    /\ scanPc = "recognize"
    /\ LET updates     == parseOCRData(rawText, others)
           detectedJur == detectJurisdiction(rawText)
           merged      == spread(data, updates)
       IN  IF detectedJur # NoJurisdiction
           THEN /\ data' = selectJurisdiction(merged, detectedJur)
                /\ selectedJurisdiction' = detectedJur
                /\ clearOutput
           ELSE /\ data' = merged
                /\ UNCHANGED <<codecVars, selectedJurisdiction>>
    /\ worker' = "terminated"
    /\ isScanning' = FALSE
    /\ scanPc' = "idle"
    /\ UNCHANGED <<edits, validateVars, aiVars, detectVars, hookVars>>

\* handleImageScan when preprocessImage, createWorker or recognize
\* rejected: catch, then finally
ImageScanFailed ==
    /\ scanPc \in {"preprocessImage", "createWorker", "recognize"}
    /\ isScanning' = FALSE
    /\ scanPc' = "idle"
    /\ UNCHANGED <<data, codecVars, selectedJurisdiction, edits, validateVars, worker, aiVars, detectVars, hookVars>>

\* the texts a decoded barcode image gives: the record of the form as it
\* was when the image was chosen, and the record of the empty form
DecodedTexts(formData) ==
    {generateAAMVAString(formData), generateAAMVAString(InitialFormData)}

\* handleValidateScan up to reader.readAsDataURL(file); the closure of
\* reader.onload holds the formData of this render
ValidateScanStart ==
    /\ edits < MaxEdits
    /\ selectedJurisdiction # NoJurisdiction
    /\ ~isScanning
    /\ ~isValidating
    /\ isValidating' = TRUE
    /\ validation' = "reading"
    /\ capturedData' = data
    /\ edits' = edits + 1
    /\ UNCHANGED <<data, codecVars, selectedJurisdiction, isScanning, workerVars, aiVars, detectVars, hookVars>>

\* the file was read: reader.onload runs to its await
ValidateScanLoaded ==
    /\ validation = "reading"
    /\ validation' = "decoding"
    /\ UNCHANGED <<data, codecVars, selectedJurisdiction, isScanning, edits, isValidating, capturedData, workerVars, aiVars, detectVars, hookVars>>

\* the file could not be read: the reader has no onerror handler
ValidateScanReadFailed ==
    /\ validation = "reading"
    /\ validation' = "unread"
    /\ UNCHANGED <<data, codecVars, selectedJurisdiction, isScanning, edits, isValidating, capturedData, workerVars, aiVars, detectVars, hookVars>>

\* codeReader.decodeFromImageUrl resolved: try, then finally
ValidateScanDecoded(rawText) ==
    /\ validation = "decoding"
    /\ scannedData' = parseAAMVARaw(rawText)
    /\ report' = reportOf(rawText, scannedData', capturedData, lastIndex)
    /\ lastIndex' = lastIndexAfter(scannedData', lastIndex)
    /\ isValidating' = FALSE
    /\ validation' = "idle"
    /\ UNCHANGED <<data, rawString, origin, removed, pc, selectedJurisdiction, isScanning, edits, capturedData, workerVars, aiVars, detectVars, hookVars>>

\* codeReader.decodeFromImageUrl rejected: catch, then finally
ValidateScanDecodeFailed ==
    /\ validation = "decoding"
    /\ report' = NoReport
    /\ isValidating' = FALSE
    /\ validation' = "idle"
    /\ UNCHANGED <<data, rawString, origin, removed, scannedData, pc, lastIndex, selectedJurisdiction, isScanning, edits, capturedData, workerVars, aiVars, detectVars, hookVars>>

\* an awaited call of handleImageScan settles
ImageScanSettles ==
    \/ ImagePreprocessed
    \/ WorkerCreated
    \/ ImageScanFailed
    \/ scanPc = "recognize" /\ \E rawText \in OcrTexts, others \in OtherUpdates : ImageScanComplete(rawText, others)

\* the file read or the decoding of handleValidateScan settles
ValidateScanSettles ==
    \/ ValidateScanLoaded
    \/ ValidateScanReadFailed
    \/ ValidateScanDecodeFailed
    \/ validation = "decoding" /\ \E rawText \in DecodedTexts(capturedData) : ValidateScanDecoded(rawText)

NextForm ==
    \/ \E i \in 1..Len(JURISDICTIONS) : SelectJurisdiction(JURISDICTIONS[i])
    \/ Back
    \/ \E name \in FormInputs, value \in TypedValues : Change(name, value)
    \/ HandleGenerate
    \/ HandleValidateCurrent
    \/ ImageScanStart
    \/ ValidateScanStart
    \/ ImageScanSettles
    \/ ValidateScanSettles

SpecForm == InitForm /\ [][NextForm]_vars

\* every awaited call and every file read settles, one way or the other
SpecFormFair == SpecForm /\ WF_vars(ImageScanSettles) /\ WF_vars(ValidateScanSettles)

----------------------------------------------------------------------------
(* detectJurisdiction applied to a recognized text *)

MaxFragments == 2      \* pieces a recognized text is put together from

Fragments ==
    {California.name, Texas.name, Virginia.name, WestVirginia.name, Colorado.name,
     TexasOld.name, <<"W","E","S","T"," ","V","I","R","G","I","N","I","A">>, <<"v","i","r","g","i","n","i","a">>, <<"O","l","d">>, <<"D","R","I","V","E","R"," ","L","I","C","E","N","S","E">>, <<"T","E","X","A">>}

RECURSIVE joinFragments(_)
joinFragments(fs) ==
    IF fs = <<>> THEN <<>>
    ELSE IF Len(fs) = 1 THEN fs[1]
    ELSE fs[1] \o <<LF>> \o joinFragments(Tail(fs))

DetectTexts ==
    {joinFragments(fs) : fs \in UNION {[1..n -> Fragments] : n \in 0..MaxFragments}}

InitDetect ==
    /\ data = InitialFormData
    /\ CodecUnused
    /\ selectedJurisdiction = NoJurisdiction
    /\ FormIdle
    /\ AnalyzerUnused
    /\ HookUnused
    /\ jurisdictions = JURISDICTIONS
    /\ detection \in {[text |-> t, called |-> FALSE, result |-> NoJurisdiction] : t \in DetectTexts}

\* const detectedJur = detectJurisdiction(rawText)
Detect ==
    /\ ~detection.called
    /\ detection' = [detection EXCEPT !.called = TRUE, !.result = detectJurisdiction(detection.text)]
    /\ jurisdictions' = jurisdictionsAfterDetect(jurisdictions)
    /\ UNCHANGED <<data, codecVars, formVars, aiVars, hookVars>>

NextDetect == Detect

SpecDetect == InitDetect /\ [][NextDetect]_vars

----------------------------------------------------------------------------
(* The analysis service: analyzeDocument sends the pages to the model,     *)
(* sanitizes and parses the text of the response and returns the result,   *)
(* or throws.  A JSON value is written as its JSON text; an object is the  *)
(* record of its four members, Undefined for a member it does not have.    *)

\* the grave accent
BQ == "<BQ>"

Fence     == <<BQ,BQ,BQ>>
FenceJson == <<BQ,BQ,BQ,"j","s","o","n">>

\* !v for a value given by its JSON text
falsyJson(v) == v \in {Undefined, <<"\"","\"">>, <<"n","u","l","l">>, <<"0">>, <<"f","a","l","s","e">>}

\* the members as returned, without defaults
asIs(v, default) == v

\* v || default
orDefault(v, default) == IF falsyJson(v) THEN default ELSE v

\* Array.isArray(v)
isArray(v) == v # Undefined /\ v # <<>> /\ v[1] = "["

\* the values the members of the response take
SummaryValues      == {Undefined, <<"\"","\"">>, <<"\"","I","n","v","o","i","c","e"," ","7","\"">>}
DocumentTypeValues == {Undefined, <<"n","u","l","l">>, <<"\"","I","n","v","o","i","c","e","\"">>}
FieldsValues       == {Undefined, <<"[","{","\"","k","e","y","\"",":","\"","N","o","\"","}","]">>, <<"\"","x","\"">>}
TablesValues       == {Undefined, <<"[","]">>, <<"{","}">>}

\* the JSON values of the model: objects, null and a number
JsonObjects ==
    [kind : {"object"}, summary : SummaryValues, document_type : DocumentTypeValues,
     fields : FieldsValues, tables : TablesValues]
JsonNull   == [kind |-> "null"] @@ NoResult
JsonNumber == [kind |-> "number"] @@ NoResult
JsonValues == JsonObjects \cup {JsonNull, JsonNumber}

member(name, v) == IF v = Undefined THEN <<>> ELSE <<<<"\"">> \o name \o <<"\"", ":">> \o v>>

RECURSIVE joinMembers(_)
joinMembers(ms) ==
    IF ms = <<>> THEN <<>>
    ELSE IF Len(ms) = 1 THEN ms[1]
    ELSE ms[1] \o <<",">> \o joinMembers(Tail(ms))

\* JSON.stringify(v)
jsonText(v) ==
    CASE v.kind = "null"   -> <<"n","u","l","l">>
      [] v.kind = "number" -> <<"4","2","9">>
      [] OTHER ->
           <<"{">> \o joinMembers(member(<<"s","u","m","m","a","r","y">>, v.summary)
                                  \o member(<<"d","o","c","u","m","e","n","t","_","t","y","p","e">>, v.document_type)
                                  \o member(<<"f","i","e","l","d","s">>, v.fields)
                                  \o member(<<"t","a","b","l","e","s">>, v.tables)) \o <<"}">>

JsonWhiteSpace == {" ", TAB, LF, CR}

RECURSIVE dropLeading(_, _)
dropLeading(s, chars) ==
    IF s # <<>> /\ s[1] \in chars THEN dropLeading(Tail(s), chars) ELSE s

RECURSIVE dropTrailing(_, _)
dropTrailing(s, chars) ==
    IF s # <<>> /\ s[Len(s)] \in chars THEN dropTrailing(SubSeq(s, 1, Len(s) - 1), chars) ELSE s

\* JSON.parse(s): the value whose text s is, white space around it ignored,
\* or a SyntaxError
JSONparse(s) ==
    LET t  == dropTrailing(dropLeading(s, JsonWhiteSpace), JsonWhiteSpace)
        vs == {v \in JsonValues : jsonText(v) = t}
    IN  IF vs = {} THEN [ok |-> FALSE, value |-> JsonNull]
        ELSE [ok |-> TRUE, value |-> CHOOSE v \in vs : TRUE]

\* s.replace(/^<prefix>/, "")
removePrefix(s, prefix) == IF startsWith(s, prefix) THEN substring(s, Len(prefix)) ELSE s

\* s.replace(/\n<fence>$/, "")
removeClosingFence(s) ==
    IF endsWith(s, <<LF>> \o Fence) THEN SubSeq(s, 1, Len(s) - 4) ELSE s

\* the Parse and Sanitize step
sanitize(text) ==
    LET jsonStr == trim(text)
    IN  IF startsWith(jsonStr, FenceJson)
        THEN removeClosingFence(removePrefix(jsonStr, FenceJson \o <<LF>>))
        ELSE IF startsWith(jsonStr, Fence)
             THEN removeClosingFence(removePrefix(jsonStr, Fence \o <<LF>>))
             ELSE jsonStr

\* the texts of a response that carry the JSON text d
plainText(d)       == d
paddedText(d)      == <<" ">> \o d \o <<LF>>
fencedJsonText(d)  == FenceJson \o <<LF>> \o d \o <<LF>> \o Fence
fencedText(d)      == Fence \o <<LF>> \o d \o <<LF>> \o Fence
fencedTightText(d) == FenceJson \o d \o Fence

ParsableTexts ==
    UNION {{plainText(jsonText(v)), paddedText(jsonText(v)), fencedJsonText(jsonText(v)),
            fencedText(jsonText(v))} : v \in JsonValues}

UnparsableTexts ==
    {<<" ">>, <<"o","o","p","s"," ","4","2","9">>, <<"{">>, fencedJsonText(<<>>)}
        \cup {fencedTightText(jsonText(v)) : v \in JsonValues}

EmptyTexts == {Undefined, <<>>}

\* what a rejected generateContent rejects with: an Error with a message,
\* a value without a message, an object whose message is a number, undefined
ApiErrors ==
    {[nullish |-> FALSE, message |-> m, messageIsString |-> TRUE] :
        m \in {<<"g","o","t"," ","s","t","a","t","u","s",":"," ","4","2","9"," ","T","o","o"," ","M","a","n","y"," ","R","e","q","u","e","s","t","s">>, <<"g","o","t"," ","s","t","a","t","u","s",":"," ","4","0","3"," ","F","o","r","b","i","d","d","e","n">>, <<"A","P","I"," ","k","e","y"," ","n","o","t"," ","v","a","l","i","d">>, <<"A","P","I","_","K","E","Y","_","I","N","V","A","L","I","D">>, <<"f","e","t","c","h"," ","f","a","i","l","e","d">>, <<>>}}
        \cup {[nullish |-> FALSE, message |-> Undefined, messageIsString |-> FALSE],
              [nullish |-> FALSE, message |-> <<"4","2","9">>, messageIsString |-> FALSE],
              [nullish |-> TRUE, message |-> Undefined, messageIsString |-> FALSE]}

Responses ==
    {[kind |-> "fulfilled", text |-> t, error |-> NoError] :
        t \in ParsableTexts \cup UnparsableTexts \cup EmptyTexts}
        \cup {[kind |-> "rejected", text |-> Undefined, error |-> e] : e \in ApiErrors}

\* new Error(message)
Error(message) == [nullish |-> FALSE, message |-> message, messageIsString |-> TRUE]

thrown(class, message) ==
    [kind |-> "thrown", class |-> class, message |-> message, value |-> NoResult]

returned(value) ==
    [kind |-> "returned", class |-> "none", message |-> <<>>, value |-> value]

\* the catch block of analyzeDocument
catch(error) ==
    IF error.nullish
    THEN thrown("TypeError", <<"C","a","n","n","o","t"," ","r","e","a","d"," ","p","r","o","p","e","r","t","i","e","s"," ","o","f"," ","u","n","d","e","f","i","n","e","d">>)
    ELSE IF error.message = Undefined
    THEN thrown("Error", <<"F","a","i","l","e","d"," ","t","o"," ","a","n","a","l","y","z","e"," ","d","o","c","u","m","e","n","t","."," ">> \o <<"U","n","k","n","o","w","n"," ","e","r","r","o","r",".">>)
    ELSE IF ~error.messageIsString
    THEN thrown("TypeError", <<"e","r","r","o","r",".","m","e","s","s","a","g","e","?",".","i","n","c","l","u","d","e","s"," ","i","s"," ","n","o","t"," ","a"," ","f","u","n","c","t","i","o","n">>)
    ELSE IF includes(error.message, <<"4","2","9">>)
    THEN thrown("Error", <<"T","o","o"," ","m","a","n","y"," ","r","e","q","u","e","s","t","s","."," ","P","l","e","a","s","e"," ","w","a","i","t"," ","a"," ","m","o","m","e","n","t"," ","a","n","d"," ","t","r","y"," ","a","g","a","i","n",".">>)
    ELSE IF \/ includes(error.message, <<"4","0","3">>)
            \/ includes(error.message, <<"A","P","I","_","K","E","Y">>)
            \/ includes(error.message, <<"A","P","I"," ","k","e","y">>)
    THEN thrown("Error", <<"I","n","v","a","l","i","d"," ","o","r"," ","m","i","s","s","i","n","g"," ","A","P","I"," ","K","e","y","."," ","P","l","e","a","s","e"," ","c","h","e","c","k"," ","y","o","u","r"," ",".","e","n","v"," ","f","i","l","e",".">>)
    ELSE thrown("Error", <<"F","a","i","l","e","d"," ","t","o"," ","a","n","a","l","y","z","e"," ","d","o","c","u","m","e","n","t","."," ">> \o (IF falsy(error.message) THEN <<"U","n","k","n","o","w","n"," ","e","r","r","o","r",".">>
                                                           ELSE error.message))

\* the message of the SyntaxError of JSON.parse(s): with or without a
\* piece of s, as the engine words it
syntaxErrorMessage(s, engine) ==
    IF engine = "snippet" THEN <<"U","n","e","x","p","e","c","t","e","d"," ","t","o","k","e","n"," ","i","n"," ","J","S","O","N",":"," ">> \o s ELSE <<"U","n","e","x","p","e","c","t","e","d"," ","t","o","k","e","n"," ","i","n"," ","J","S","O","N",":"," ">>

Engines == {"plain", "snippet"}

\* the result object built from the parsed data with the member defaults
resultOf(d) ==
    [summary       |-> orDefault(d.summary, <<"\"","N","o"," ","s","u","m","m","a","r","y"," ","a","v","a","i","l","a","b","l","e",".","\"">>),
     document_type |-> orDefault(d.document_type, <<"\"","U","n","k","n","o","w","n","\"">>),
     fields        |-> IF isArray(d.fields) THEN d.fields ELSE <<"[","]">>,
     tables        |-> IF isArray(d.tables) THEN d.tables ELSE <<"[","]">>]

\* the try block of analyzeDocument after the await fulfilled with text
afterResponse(text, engine) ==
    IF falsy(text)
    THEN catch(Error(<<"G","e","m","i","n","i"," ","r","e","t","u","r","n","e","d"," ","a","n"," ","e","m","p","t","y"," ","r","e","s","p","o","n","s","e",".">>))
    ELSE LET jsonStr == sanitize(text)
             parsed  == JSONparse(jsonStr)
         IN  IF ~parsed.ok THEN catch(Error(syntaxErrorMessage(jsonStr, engine)))
             ELSE IF parsed.value.kind = "null" THEN catch(Error(<<"C","a","n","n","o","t"," ","r","e","a","d"," ","p","r","o","p","e","r","t","i","e","s"," ","o","f"," ","n","u","l","l">>))
             ELSE returned(resultOf(parsed.value))

InitAnalyze ==
    /\ data = InitialFormData
    /\ CodecUnused
    /\ selectedJurisdiction = NoJurisdiction
    /\ FormIdle
    /\ DetectUnused
    /\ HookUnused
    /\ ai = "null"
    /\ apiKey \in {<<>>, <<"k","e","y">>}
    /\ call = "idle"
    /\ response = NoResponse
    /\ analysis = NoAnalysis

\* analyzeDocument up to its await: getAiClient, then generateContent
AnalyzeStart ==
    /\ call \in {"idle", "settled"}
    /\ response' = NoResponse
    /\ IF ai = "null" /\ falsy(apiKey)
       THEN /\ analysis' = catch(Error(<<"A","P","I","_","K","E","Y"," ","i","s"," ","m","i","s","s","i","n","g"," ","i","n"," ","e","n","v","i","r","o","n","m","e","n","t"," ","v","a","r","i","a","b","l","e","s",".">>))
            /\ call' = "settled"
            /\ ai' = ai
       ELSE /\ analysis' = NoAnalysis
            /\ call' = "pending"
            /\ ai' = "client"
    /\ UNCHANGED <<data, codecVars, formVars, detectVars, hookVars, apiKey>>

\* generateContent settles
Receive(resp) ==
    /\ call = "pending"
    /\ response' = resp
    /\ call' = "received"
    /\ UNCHANGED <<data, codecVars, formVars, detectVars, hookVars, ai, apiKey, analysis>>

\* analyzeDocument after its await, to its return or throw
Complete(engine) ==
    /\ call = "received"
    /\ analysis' = IF response.kind = "rejected" THEN catch(response.error)
                   ELSE afterResponse(response.text, engine)
    /\ call' = "settled"
    /\ UNCHANGED <<data, codecVars, formVars, detectVars, hookVars, ai, apiKey, response>>

NextAnalyze ==
    \/ AnalyzeStart
    \/ \E resp \in Responses : Receive(resp)
    \/ \E engine \in Engines : Complete(engine)

SpecAnalyze == InitAnalyze /\ [][NextAnalyze]_vars

----------------------------------------------------------------------------
(* The hook useDocumentAnalysis: processFile and loadSample are            *)
(* asynchronous, each call of them stands in calls with the await it is    *)
(* at, and reset and further calls run while earlier ones are pending.     *)

MaxCalls == 2          \* processFile and loadSample calls of one behaviour
MaxPages == 2          \* images convertPdfToImages extracts from a document

\* the number of entries of strategies in loadSample
Strategies == 3

FileTypes == {"application/pdf", "image/jpeg"}

\* the message of what an awaited call rejected with, "" when it has none
RejectMessages == {"", "Invalid or missing API Key. Please check your .env file."}

FetchOutcomes == FileTypes \cup {"failed"}

newCall(kind, at) == [kind |-> kind, pc |-> at, attempt |-> 1]

\* images.map(img => URL.createObjectURL(img))
newUrls(n) == [i \in 1..n |-> "blob:"]

\* err.message || "An unexpected error occurred during analysis."
messageOrDefault(m) == IF m = "" THEN "An unexpected error occurred during analysis." ELSE m

\* loadSample running whatever the status
loadSampleNeverReturns(s) == FALSE

\* if (status === ProcessingStatus.ANALYZING) return
loadSampleReturns(s) == s = "ANALYZING"

InitHook ==
    /\ data = InitialFormData
    /\ CodecUnused
    /\ selectedJurisdiction = NoJurisdiction
    /\ FormIdle
    /\ AnalyzerUnused
    /\ DetectUnused
    /\ HookUnused

hookFrame == UNCHANGED <<data, codecVars, formVars, aiVars, detectVars>>

\* reset(), from the button above the viewer
Reset ==
    /\ imageUrls # <<>>
    /\ hookStatus' = "IDLE"
    /\ hookResult' = "null"
    /\ hookError' = "null"
    /\ imageUrls' = <<>>
    /\ UNCHANGED calls
    /\ hookFrame

\* processFile from its first statement to its first await, as call c:
\* reset(), setStatus(ANALYZING), and for an image setImageUrls
processFileStart(c, cs, type) ==
    /\ hookStatus' = "ANALYZING"
    /\ hookResult' = "null"
    /\ hookError' = "null"
    /\ IF type = "application/pdf"
       THEN /\ imageUrls' = <<>>
            /\ calls' = [cs EXCEPT ![c].pc = "convertPdfToImages"]
       ELSE /\ imageUrls' = newUrls(1)
            /\ calls' = [cs EXCEPT ![c].pc = "fileToBase64"]

\* the catch block of processFile
processFileCatch(c, message) ==
    /\ hookError' = message
    /\ hookStatus' = "ERROR"
    /\ calls' = [calls EXCEPT ![c].pc = "done"]
    /\ UNCHANGED <<hookResult, imageUrls>>

\* processFile(file), from the Dropzone
ProcessFile(type) ==
    /\ Len(calls) < MaxCalls
    /\ imageUrls = <<>>
    /\ hookStatus # "ANALYZING"
    /\ processFileStart(Len(calls) + 1, Append(calls, newCall("processFile", "start")), type)
    /\ hookFrame

\* loadSample(url), to its first await
LoadSample ==
    /\ Len(calls) < MaxCalls
    /\ imageUrls = <<>>
    /\ IF loadSampleReturns(hookStatus)
       THEN UNCHANGED hookVars
       ELSE /\ hookStatus' = "ANALYZING"
            /\ calls' = Append(calls, newCall("loadSample", "fetch"))
            /\ UNCHANGED <<hookResult, hookError, imageUrls>>
    /\ hookFrame

\* loadSample: the fetch of one strategy settles, with a file of a type or
\* with a failure (rejected, not ok, or html or xml content)
FetchSettles(c, outcome) ==
    /\ c \in 1..Len(calls)
    /\ calls[c].pc = "fetch"
    /\ IF outcome = "failed"
       THEN IF calls[c].attempt < Strategies
            THEN /\ calls' = [calls EXCEPT ![c].attempt = @ + 1]
                 /\ UNCHANGED <<hookStatus, hookResult, hookError, imageUrls>>
            ELSE /\ hookError' = "Failed to load sample document. Please try uploading a file instead."
                 /\ hookStatus' = "ERROR"
                 /\ calls' = [calls EXCEPT ![c].pc = "done"]
                 /\ UNCHANGED <<hookResult, imageUrls>>
       ELSE processFileStart(c, calls, outcome)
    /\ hookFrame

\* processFile: convertPdfToImages settles, with n images or rejected
ConvertSettles(c, rejected, n) ==
    /\ c \in 1..Len(calls)
    /\ calls[c].pc = "convertPdfToImages"
    /\ IF rejected
       THEN processFileCatch(c, "Failed to process file. Ensure it is a valid PDF or Image.")
       ELSE IF n = 0
            THEN processFileCatch(c, "No images could be extracted from the document.")
            ELSE /\ imageUrls' = newUrls(n)
                 /\ calls' = [calls EXCEPT ![c].pc = "fileToBase64"]
                 /\ UNCHANGED <<hookStatus, hookResult, hookError>>
    /\ hookFrame

\* processFile: Promise.all of the fileToBase64 calls settles
EncodeSettles(c, rejected, message) ==
    /\ c \in 1..Len(calls)
    /\ calls[c].pc = "fileToBase64"
    /\ IF rejected
       THEN processFileCatch(c, messageOrDefault(message))
       ELSE /\ calls' = [calls EXCEPT ![c].pc = "analyzeDocument"]
            /\ UNCHANGED <<hookStatus, hookResult, hookError, imageUrls>>
    /\ hookFrame

\* processFile: analyzeDocument settles
AnalysisSettles(c, rejected, message) ==
    /\ c \in 1..Len(calls)
    /\ calls[c].pc = "analyzeDocument"
    /\ IF rejected
       THEN processFileCatch(c, messageOrDefault(message))
       ELSE /\ hookResult' = "analysisData"
            /\ hookStatus' = "SUCCESS"
            /\ calls' = [calls EXCEPT ![c].pc = "done"]
            /\ UNCHANGED <<hookError, imageUrls>>
    /\ hookFrame

\* the await call c is at settles
Settles(c) ==
    \/ \E outcome \in FetchOutcomes : FetchSettles(c, outcome)
    \/ \E rejected \in BOOLEAN, n \in 0..MaxPages : ConvertSettles(c, rejected, n)
    \/ \E rejected \in BOOLEAN, message \in RejectMessages : EncodeSettles(c, rejected, message)
    \/ \E rejected \in BOOLEAN, message \in RejectMessages : AnalysisSettles(c, rejected, message)

NextHook ==
    \/ Reset
    \/ \E type \in FileTypes : ProcessFile(type)
    \/ LoadSample
    \/ \E c \in 1..MaxCalls : Settles(c)

SpecHook == InitHook /\ [][NextHook]_vars

\* every awaited call settles
SpecHookFair == SpecHook /\ \A c \in 1..MaxCalls : WF_vars(Settles(c))

----------------------------------------------------------------------------
(* Properties *)

Encoded   == origin = "encoder"
Intact    == removed = NoElement
Validated == pc = "validated"

\* all slots non-empty, no CR or LF inside a value
WellFormed(d) ==
    \A k \in Slots : d[k] # <<>> /\ \A i \in 1..Len(d[k]) : d[k][i] \notin {CR, LF}

fieldOf(rep, elId) ==
    rep.fields[CHOOSE i \in 1..Len(rep.fields) : rep.fields[i].elementId = elId]

RECURSIVE parseInt(_)
parseInt(digits) ==
    IF digits = <<>> THEN 0
    ELSE 10 * parseInt(SubSeq(digits, 1, Len(digits) - 1)) + DigitVal[digits[Len(digits)]]

\* the characters of raw before the position the offset field announces
headerRegion(raw) ==
    SubSeq(raw, 1, IF Len(raw) < subfileOffsetVal THEN Len(raw) ELSE subfileOffsetVal)

\* in an encoder output: the characters between the offset field and the body
lengthField(raw, d) == SubSeq(raw, Len(header(d)) + 7, Len(raw) - Len(sub(d)) - 1)

\* the lines the decoder splits raw into
linesOf(raw) == split(replaceCRbyLF(raw), LF)

SubfileTags == {<<"D","L">>, <<"I","D">>, <<"E","N">>}

\* line is tag + identifier + value with a non-empty value
taggedForm(line) ==
    /\ Len(line) >= 6
    /\ SubSeq(line, 1, 2) \in SubfileTags
    /\ \A i \in 3..5 : line[i] \in UpperAZ

\* line, trimmed, starts with identifier id or with a tag and id
carries(line, id) ==
    LET t == trim(line)
    IN  \/ startsWith(t, id)
        \/ Len(t) >= 5 /\ SubSeq(t, 1, 2) \in SubfileTags /\ SubSeq(t, 3, 5) = id

\* C1: decoding the encoder's output for a well-formed record yields, for
\* every catalog element, an entry equal to the record's slot value.
C1_RoundTrip ==
    (Validated /\ Encoded /\ Intact /\ WellFormed(data)) =>
        \A e \in CatalogIds : e \in DOMAIN scannedData /\ scannedData[e] = data[e]

\* C2: reconciling the encoder's output for a well-formed record against that
\* record gives a valid signature and status MATCH for every catalog field.
C2_IdempotentReconciliation ==
    (Validated /\ Encoded /\ Intact /\ WellFormed(data)) =>
        /\ report.isValidSignature
        /\ \A i \in 1..Len(report.fields) : report.fields[i].status = "MATCH"

\* C3: with exactly one catalog element's data line removed from the
\* encoder's output for a well-formed record, the report has MISSING_IN_SCAN
\* for that element and MATCH for every other catalog field.
C3_MissingFieldDetection ==
    (Validated /\ Encoded /\ ~Intact /\ WellFormed(data)) =>
        \A i \in 1..Len(report.fields) :
            report.fields[i].status =
                IF report.fields[i].elementId = removed THEN "MISSING_IN_SCAN" ELSE "MATCH"

\* the status C4 gives a present field, the comparison being that of
\* the normalized values when plain, of their digits when not
decidedStatus(config, scannedVal, formVal, plain) ==
    LET a == normalize(scannedVal)
        b == normalize(formVal)
        differ == IF plain THEN a # b ELSE stripNonDigits(a) # stripNonDigits(b)
    IN  IF differ THEN "MISMATCH"
        ELSE IF config.regex # NoRegex /\ ~regexTest(config.regex, scannedVal)
             THEN "INVALID_FORMAT"
             ELSE "MATCH"

\* C4 as stated: for every catalog element the decoded map holds a value
\* for, the status is MISMATCH iff the normalized observed and reference
\* values differ, else INVALID_FORMAT iff the pattern fails, else MATCH.
C4_StatusDecisionEveryElement ==
    Validated =>
        \A i \in 1..Len(ELEMENT_MAP) :
            ELEMENT_MAP[i].elId \in DOMAIN scannedData =>
                report.fields[i].status =
                    decidedStatus(ELEMENT_MAP[i], scannedData[ELEMENT_MAP[i].elId],
                                  data[ELEMENT_MAP[i].formKey], TRUE)

\* C4, amended: as stated for every catalog element but the height (DAU),
\* whose status is MISMATCH iff the digits of the two normalized values
\* differ; an observed state code 'california' is INVALID_FORMAT against the
\* reference 'california' and MISMATCH against the reference 'CA'.
C4_StatusDecision ==
    Validated =>
        \A i \in 1..Len(ELEMENT_MAP) :
            LET config == ELEMENT_MAP[i]
                f      == report.fields[i]
            IN  config.elId \in DOMAIN scannedData =>
                    /\ f.status = decidedStatus(config, scannedData[config.elId],
                                                data[config.formKey], config.elId # DAU)
                    /\ (config.elId = DAJ /\ f.scannedValue = california) =>
                          /\ data[DAJ] = california => f.status = "INVALID_FORMAT"
                          /\ data[DAJ] = <<"C","A">> => f.status = "MISMATCH"

\* a scanned 'california' was reported INVALID_FORMAT against 'california'
C4_Witness ==
    /\ Validated
    /\ DAJ \in DOMAIN scannedData
    /\ scannedData[DAJ] = california
    /\ data[DAJ] = california
    /\ fieldOf(report, DAJ).status = "INVALID_FORMAT"

\* C5: the signature flag is true iff the record starts with '@' and 'ANSI'
\* occurs in its header region; 'ANSI' inside element data does not count.
C5_SignatureFromHeader ==
    Validated =>
        (report.isValidSignature <=>
            (startsWith(rawString, <<"@">>) /\ includes(headerRegion(rawString), ANSI)))

\* C6: for an input that does not start with '@' the decoded map is empty and
\* the report has a false signature flag, the input as rawString and
\* MISSING_IN_SCAN for every catalog field.
C6_StructuralFailureIsAValue ==
    (Validated /\ ~startsWith(rawString, <<"@">>)) =>
        /\ DOMAIN scannedData = {}
        /\ report.isValidSignature = FALSE
        /\ report.rawString = rawString
        /\ Len(report.fields) = Len(ELEMENT_MAP)
        /\ \A i \in 1..Len(ELEMENT_MAP) :
              /\ report.fields[i].elementId = ELEMENT_MAP[i].elId
              /\ report.fields[i].status = "MISSING_IN_SCAN"

\* a complete record that lost its '@' was reconciled
C6_Witness ==
    /\ Validated
    /\ rawString = Tail(generateAAMVAString(BaseRecord))
    /\ DOMAIN scannedData = {}
    /\ fieldOf(report, DAQ).status = "MISSING_IN_SCAN"

\* C7 as stated: in a record starting with '@', every line tag + identifier
\* + non-empty value yields the entry identifier -> trimmed value.
C7_TagStrippingEveryLine ==
    (Validated /\ startsWith(rawString, <<"@">>)) =>
        LET lines == linesOf(rawString)
        IN  \A i \in 1..Len(lines) :
                LET line == lines[i]
                    id   == SubSeq(line, 3, 5)
                IN  taggedForm(line) =>
                        /\ id \in DOMAIN scannedData
                        /\ scannedData[id] = trim(SubSeq(line, 6, Len(line)))

\* C7, amended: in a record starting with '@', a line tag + identifier +
\* value whose value has a non-whitespace character and no U+2028, and that
\* no later line carrying the same identifier follows, yields the entry
\* identifier -> trimmed value; the tag is no part of the key.
C7_TagStripping ==
    (Validated /\ startsWith(rawString, <<"@">>)) =>
        LET lines == linesOf(rawString)
        IN  \A i \in 1..Len(lines) :
                LET line  == lines[i]
                    id    == SubSeq(line, 3, 5)
                    value == SubSeq(line, 6, Len(line))
                IN  ( /\ taggedForm(line)
                      /\ trim(value) # <<>>
                      /\ \A j \in 1..Len(value) : value[j] # LS
                      /\ \A j \in (i+1)..Len(lines) : ~carries(lines[j], id) ) =>
                        /\ id \in DOMAIN scannedData
                        /\ scannedData[id] = trim(value)

\* the line 'DLDDAF' was decoded to DDA -> 'F'
C7_Witness ==
    /\ Validated
    /\ LET lines == linesOf(rawString)
       IN  \E i \in 1..Len(lines) : lines[i] = <<"D","L","D","D","A","F">>
    /\ DDA \in DOMAIN scannedData
    /\ scannedData[DDA] = <<"F">>

\* C8: in every encoder output the four characters after the designator's
\* 'DL' tag are '0031', whatever the slot values.
C8_OffsetIs0031 ==
    (pc = "raw" /\ Encoded /\ Intact) =>
        LET h == Len(header(data))
        IN  /\ SubSeq(rawString, h + 1, h + 2) = SubfileType
            /\ SubSeq(rawString, h + 3, h + 6) = <<"0","0","3","1">>

\* a record with an empty issuer number was encoded with offset '0031'
C8_Witness ==
    /\ pc = "raw" /\ Encoded /\ Intact
    /\ data[IIN] = <<>>
    /\ SubSeq(rawString, Len(header(data)) + 3, Len(header(data)) + 6) = <<"0","0","3","1">>

\* C9: in every encoder output header and designator occupy exactly 31
\* characters, the subfile body starts right after them, and the length of
\* the output is 31 plus the value of the length field.
C9_PrefixIs31 ==
    (pc = "raw" /\ Encoded /\ Intact) =>
        /\ Len(header(data)) + Len(designator(data)) = 31
        /\ SubSeq(rawString, 32, Len(rawString) - 1) = sub(data)
        /\ Len(rawString) = 31 + parseInt(lengthField(rawString, data))

\* C10: in every encoder output the length field is exactly four decimal
\* digits whose value is the length of the subfile body plus one.
C10_LengthFieldFourDigits ==
    (pc = "raw" /\ Encoded /\ Intact) =>
        LET field == lengthField(rawString, data)
        IN  /\ Len(field) = 4
            /\ AllIn(field, Digit)
            /\ parseInt(field) = Len(sub(data)) + 1


\* v is empty or holds whitespace only
blank(v) == \A i \in 1..Len(v) : v[i] \in WhiteSpace

\* raw has a line made of identifier id and value v, after another line
hasLine(raw, id, v) == includes(raw, <<LF>> \o id \o v \o <<LF>>)

\* C11: in every encoder output a blank restrictions (DCB) or endorsements
\* (DCD) slot is written as the line 'DCBNONE' ('DCDNONE'), a non-blank slot
\* is written unchanged, and no DCB or DCD element has an empty value.
C11_DefaultSubstitution ==
    (pc = "raw" /\ Encoded /\ Intact) =>
        \A id \in {DCB, DCD} :
            /\ blank(data[id]) => hasLine(rawString, id, NONE)
            /\ ~blank(data[id]) => hasLine(rawString, id, data[id])
            /\ ~hasLine(rawString, id, <<>>)

\* a restrictions slot holding one space was encoded as 'DCBNONE'
C11_Witness ==
    /\ pc = "raw" /\ Encoded /\ Intact
    /\ data[DCB] = <<" ">>
    /\ hasLine(rawString, DCB, NONE)


\* the decimal digits of v, in order
digitsOf(v) == SelectSeq(v, LAMBDA c : c \in Digit)

LayoutOrder ==
    <<DDA, DEB, DAQ, DCS, DDE, DAC, DDF, DAD, DDG, DCA, DCB, DCD, DBA, DBB, DBC,
      DAY, DAZ, DAU, DAW, DAG, DAI, DAJ, DAK, DCF, DCG, DBD>>

\* the value the body carries for identifier id of record d
layoutValue(d, id) ==
    CASE id \in {DDE, DDF, DDG} -> <<>>
      [] id \in {DCB, DCD} -> IF blank(d[id]) THEN <<"N","O","N","E">> ELSE d[id]
      [] id = DAU -> IF endsWith(d[DAU], <<" ","i","n">>) \/ endsWith(d[DAU], <<" ","c","m">>)
                     THEN d[DAU] ELSE d[DAU] \o <<" ","i","n">>
      [] OTHER -> d[id]

RECURSIVE layoutBody(_, _)
layoutBody(d, i) ==
    IF i > Len(LayoutOrder) THEN <<>>
    ELSE LayoutOrder[i] \o layoutValue(d, LayoutOrder[i]) \o <<LF>> \o layoutBody(d, i + 1)

\* n in decimal, zero-padded on the left to four digits
fourDigits(n) ==
    LET s == toString(n)
    IN  [i \in 1..(4 - Len(s)) |-> "0"] \o s

\* C14: every encoder output is '@' LF RS CR 'ANSI ' + IIN + Version + '00'
\* + '01' + 'DL' + offset + length + body + CR, the body being 'DL' and the
\* 26 LF-terminated elements in the fixed order, DDE, DDF and DDG empty.
C14_ByteExactLayout ==
    (pc = "raw" /\ Encoded /\ Intact) =>
        LET body == <<"D","L">> \o layoutBody(data, 1)
        IN  rawString =
                <<"@", LF, RS, CR, "A","N","S","I"," ">> \o data[IIN] \o data[Version]
                    \o <<"0","0","0","1">> \o <<"D","L">> \o <<"0","0","3","1">>
                    \o fourDigits(Len(body) + 1) \o body \o <<CR>>

\* the record of the initial form with California selected was encoded
C14_Witness ==
    /\ pc = "raw" /\ Encoded /\ Intact
    /\ data = BaseRecord
    /\ Len(rawString) = 253
    /\ SubSeq(rawString, 1, 38) =
          <<"@", LF, RS, CR, "A","N","S","I"," ", "6","3","6","0","1","4", "1","0", "0","0","0","1",
            "D","L", "0","0","3","1", "0","2","2","2", "D","L", "D","D","A","F", LF>>


\* the catalog's identifiers in declaration order
DeclarationOrder ==
    <<DAQ, DBA, DCS, DAC, DAD, DBB, DBD, DEB, DDA, DAG, DAI, DAJ, DAK, DCA, DBC,
      DAU, DAW, DAY, DAZ, DCB, DCD, DCF, DCG>>

\* C17: every report lists exactly one result per catalog entry, in catalog
\* declaration order, whatever the raw record holds.
C17_ReportShape ==
    Validated =>
        /\ Len(report.fields) = Len(DeclarationOrder)
        /\ \A i \in 1..Len(DeclarationOrder) :
              report.fields[i].elementId = DeclarationOrder[i]

\* a scan holding the state code only was reported with DAQ first, DAJ
\* twelfth and DCG last
C17_Witness ==
    /\ Validated
    /\ origin = "scan"
    /\ DOMAIN scannedData = {DAJ}
    /\ report.fields[1].elementId = DAQ /\ report.fields[1].status = "MISSING_IN_SCAN"
    /\ report.fields[12].elementId = DAJ /\ report.fields[12].status = "MATCH"
    /\ report.fields[23].elementId = DCG


\* the positions of raw holding CR or LF
separatorPositions(raw) == {i \in 1..Len(raw) : raw[i] \in {CR, LF}}

\* raw with CR and LF exchanged at the positions S
exchangeAt(raw, S) ==
    [i \in 1..Len(raw) |->
        IF i \in S THEN (IF raw[i] = CR THEN LF ELSE IF raw[i] = LF THEN CR ELSE raw[i])
        ELSE raw[i]]

\* the sets of positions exchanged: every subset of the separators of a
\* record with few of them, else all CRs, all LFs, and both
exchanges(raw) ==
    LET seps == separatorPositions(raw)
    IN  IF Cardinality(seps) <= MaxSwapPositions
        THEN SUBSET seps
        ELSE {{i \in seps : raw[i] = CR}, {i \in seps : raw[i] = LF}, seps}

\* C19: for a record starting with '@', replacing CRs by LFs or LFs by CRs
\* leaves the decoded map unchanged.
C19_CRLFEquivalence ==
    (Validated /\ startsWith(rawString, <<"@">>)) =>
        \A S \in exchanges(rawString) :
            parseAAMVARaw(exchangeAt(rawString, S)) = scannedData

\* a scanned record whose lines end with CR was decoded to a state code
C19_Witness ==
    /\ Validated
    /\ origin = "scan"
    /\ \E i \in 1..Len(rawString) : rawString[i] = CR
    /\ \A i \in 1..Len(rawString) : rawString[i] # LF
    /\ DAJ \in DOMAIN scannedData
    /\ parseAAMVARaw(exchangeAt(rawString, separatorPositions(rawString))) = scannedData


\* line without surrounding whitespace and without a subfile tag glued to
\* an identifier
elementText(line) ==
    LET t == trim(line)
    IN  IF /\ Len(t) >= 5
           /\ SubSeq(t, 1, 2) \in SubfileTags
           /\ \A i \in 3..5 : t[i] \in UpperAZ
        THEN SubSeq(t, 3, Len(t)) ELSE t

\* line is an element line: three uppercase letters and at least one more
\* character, none of them a line separator
isElementLine(line) ==
    LET u == elementText(line)
    IN  /\ Len(u) >= 4
        /\ \A i \in 1..3 : u[i] \in UpperAZ
        /\ \A i \in 4..Len(u) : u[i] # LS

C16_Purity ==
    /\ lastIndex = FreshLastIndex
    /\ (pc # "input" /\ Encoded /\ Intact) => rawString = generateAAMVAString(data)
    /\ Validated =>
          /\ scannedData = parseAAMVARaw(rawString)
          /\ report = validateBarcode(rawString, data)

\* the encoder's output was validated, its patterned elements tested, and
\* validating once more is possible and changes nothing
C16_Witness ==
    /\ Validated /\ Encoded /\ Intact
    /\ fieldOf(report, DAQ).status = "MATCH"
    /\ lastIndexAfter(scannedData, lastIndex) = lastIndex
    /\ reportOf(rawString, scannedData, data, lastIndex) = report

\* C15: while a jurisdiction is selected, the slots DAJ, DCG, IIN and Version
\* hold the code, the country (USA when absent), the IIN and the version of
\* the selected jurisdiction, whatever operations ran since its selection
C15_JurisdictionSlotsReadOnly ==
    selectedJurisdiction # NoJurisdiction =>
        /\ data[DAJ] = selectedJurisdiction.code
        /\ data[DCG] = (IF falsy(selectedJurisdiction.country)
                        THEN <<"U","S","A">> ELSE selectedJurisdiction.country)
        /\ data[IIN] = selectedJurisdiction.iin
        /\ data[Version] = selectedJurisdiction.version

\* the JSON value a parsable text of a response carries
carriedBy(text) ==
    CHOOSE v \in JsonValues :
        text \in {plainText(jsonText(v)), paddedText(jsonText(v)),
                  fencedJsonText(jsonText(v)), fencedText(jsonText(v))}

DefaultSummary      == <<"\"","N","o"," ","s","u","m","m","a","r","y"," ","a","v","a","i","l","a","b","l","e",".","\"">>
DefaultDocumentType == <<"\"","U","n","k","n","o","w","n","\"">>
EmptyArray          == <<"[","]">>

\* C18: a settled analyzeDocument call has either returned an object with a
\* summary, a document_type, a fields array and a tables array, the members
\* the response lacks or that are no arrays replaced by the defaults, or has
\* thrown an Error and returned nothing; it has thrown when the API key is
\* missing, the response is empty, its text is no JSON or the request failed
C18_CompleteOrThrows ==
    call = "settled" =>
        /\ analysis.kind \in {"returned", "thrown"}
        /\ analysis.kind = "returned" =>
              /\ response.kind = "fulfilled" /\ response.text \in ParsableTexts
              /\ ~falsyJson(analysis.value.summary)
              /\ ~falsyJson(analysis.value.document_type)
              /\ isArray(analysis.value.fields)
              /\ isArray(analysis.value.tables)
              /\ LET d == carriedBy(response.text)
                 IN  /\ analysis.value.summary =
                           (IF d.summary \in {Undefined, <<"\"","\"">>} THEN DefaultSummary ELSE d.summary)
                     /\ analysis.value.document_type =
                           (IF d.document_type \in {Undefined, <<"n","u","l","l">>}
                            THEN DefaultDocumentType ELSE d.document_type)
                     /\ analysis.value.fields =
                           (IF d.fields \in {Undefined, <<"\"","x","\"">>} THEN EmptyArray ELSE d.fields)
                     /\ analysis.value.tables =
                           (IF d.tables \in {Undefined, <<"{","}">>} THEN EmptyArray ELSE d.tables)
        /\ analysis.kind = "thrown" =>
              analysis.class \in {"Error", "TypeError"} /\ analysis.value = NoResult
        /\ apiKey = <<>> => analysis.kind = "thrown"
        /\ response.kind = "rejected" => analysis.kind = "thrown"
        /\ (response.kind = "fulfilled" /\ response.text \in EmptyTexts \cup UnparsableTexts)
              => analysis.kind = "thrown"

\* a response in a json fence without summary and tables, with a null
\* document_type and fields that are a string, has been answered
C18_Witness ==
    /\ call = "settled"
    /\ analysis.kind = "returned"
    /\ response.text = fencedJsonText(<<"{","\"","d","o","c","u","m","e","n","t","_","t","y","p","e","\"",":","n","u","l","l",",","\"","f","i","e","l","d","s","\"",":","\"","x","\"","}">>)
    /\ analysis.value = [summary |-> DefaultSummary, document_type |-> DefaultDocumentType,
                         fields |-> EmptyArray, tables |-> EmptyArray]


RECURSIVE layoutLength(_, _, _)
\* the number of characters of elements i..j of the body of record d
layoutLength(d, i, j) ==
    IF i > j THEN 0
    ELSE 3 + Len(layoutValue(d, LayoutOrder[i])) + 1 + layoutLength(d, i + 1, j)

\* where DAU stands in the order of the body
HeightIndex == CHOOSE i \in 1..Len(LayoutOrder) : LayoutOrder[i] = DAU

\* the place of the DAU element in raw, the encoding of d: the positions of
\* its first character and of the LF that ends it
heightStart(raw, d) ==
    9 + Len(d[IIN]) + Len(d[Version]) + 4 + 10 + 2 + layoutLength(d, 1, HeightIndex - 1) + 1
heightEnd(raw, d) == Len(raw) - 1 - layoutLength(d, HeightIndex + 1, Len(LayoutOrder))

\* C21: in every encoder output the DAU element ends with ' in' or ' cm'; a
\* height that ends with one of the two is emitted unchanged, any other
\* height is emitted with ' in' after it.
C21_HeightSuffix ==
    (pc = "raw" /\ Encoded /\ Intact) =>
        LET from == heightStart(rawString, data)
            to   == heightEnd(rawString, data)
            h    == SubSeq(rawString, from + 3, to - 1)
            has(s, suffix) == Len(s) >= 3 /\ SubSeq(s, Len(s) - 2, Len(s)) = suffix
            unit(s) == has(s, <<" ","i","n">>) \/ has(s, <<" ","c","m">>)
        IN  /\ SubSeq(rawString, from, from + 2) = DAU
            /\ rawString[to] = LF
            /\ unit(h)
            /\ unit(data[DAU]) => h = data[DAU]
            /\ ~unit(data[DAU]) => h = data[DAU] \o <<" ","i","n">>

\* a height in centimetres was encoded
C21_Witness ==
    /\ pc = "raw" /\ Encoded /\ Intact
    /\ data[DAU] = <<"1","7","0"," ","c","m">>
    /\ includes(rawString, <<LF>> \o DAU \o <<"1","7","0"," ","c","m">> \o <<LF>> \o DAW)


\* the positions in JURISDICTIONS of the jurisdictions whose name has no
\* 'Old' in it and occurs in text, capitals and small letters alike
matching(text) ==
    {i \in 1..Len(JURISDICTIONS) :
        /\ ~includes(JURISDICTIONS[i].name, <<"O","l","d">>)
        /\ includes(toUpperCase(text), toUpperCase(JURISDICTIONS[i].name))}

C23_DecodedMapInvariant ==
    Validated =>
        /\ \A k \in DOMAIN scannedData :
              LET v == scannedData[k]
              IN  /\ Len(k) = 3
                  /\ \A i \in 1..3 : k[i] \in UpperAZ
                  /\ v # <<>>
                  /\ v[1] \notin WhiteSpace /\ v[Len(v)] \notin WhiteSpace
                  /\ \A i \in 1..Len(v) : v[i] \notin {CR, LF}
        /\ \A id \in CatalogIds :
              fieldOf(report, id).status = "MISSING_IN_SCAN" <=> id \notin DOMAIN scannedData
        /\ (Encoded /\ Intact) =>
              \A id \in CatalogIds \ {DAU, DCB, DCD} : data[id] = <<>> => id \notin DOMAIN scannedData

\* a record with an empty street was encoded and decoded: the map has an
\* entry for the city and none for the street
C23_Witness ==
    /\ Validated /\ Encoded /\ Intact
    /\ data[DAG] = <<>>
    /\ DAG \notin DOMAIN scannedData
    /\ DAI \in DOMAIN scannedData


\* C24: for every record without CR or LF in its values, every key of the
\* map decoded from its encoding is one of the 26 identifiers of the body;
\* no header or designator text is decoded as an element.
C24_NoSpuriousKeys ==
    (Validated /\ Encoded /\ Intact
        /\ \A k \in Slots : \A i \in 1..Len(data[k]) : data[k][i] \notin {CR, LF}) =>
        DOMAIN scannedData \subseteq {LayoutOrder[i] : i \in 1..Len(LayoutOrder)}


\* C25: in every state of useDocumentAnalysis, under every interleaving of
\* processFile, loadSample, reset and the pending completions, status
\* SUCCESS comes with a result, no error and at least one image URL, and
\* status IDLE comes with no result.
C25_HookConsistency ==
    /\ hookStatus = "SUCCESS" =>
          hookResult # "null" /\ hookError = "null" /\ imageUrls # <<>>
    /\ hookStatus = "IDLE" => hookResult = "null"


\* C29: every processFile or loadSample call that has set status to
\* ANALYZING comes to its end with status SUCCESS or ERROR, every awaited
\* call settling; and a loadSample call made while status is ANALYZING
\* changes nothing of the hook's state.
C29_AnalysisSettles ==
    /\ \A c \in 1..MaxCalls :
          (c <= Len(calls) /\ calls[c].pc # "done")
              ~> (c <= Len(calls) /\ calls[c].pc = "done" /\ hookStatus \in {"SUCCESS", "ERROR"})
    /\ [][(hookStatus = "ANALYZING" /\ LoadSample) => UNCHANGED hookVars]_vars

\* a loadSample call went through a failed fetch, the conversion of a PDF
\* and the analysis, and ended with status SUCCESS
C29_Witness ==
    /\ Len(calls) >= 1
    /\ calls[1] = [kind |-> "loadSample", pc |-> "done", attempt |-> 2]
    /\ hookStatus = "SUCCESS"
    /\ Len(imageUrls) = 2


\* C26: while no jurisdiction is selected, the generated record is empty
\* and there is no validation report, Back pressed during a pending upload
\* validation included.
C26_NoOutputOnList ==
    selectedJurisdiction = NoJurisdiction => rawString = <<>> /\ report = NoReport

\* C27: a generated record that is displayed is the encoding of the
\* Attribute Record as it is now; no edit and no OCR merge after Generate
\* leaves an older record displayed.
C27_DisplayedRecordCurrent ==
    rawString # <<>> => rawString = generateAAMVAString(data)

\* C28: whenever handleValidateScan has set isValidating, isValidating is
\* false again later, the file read and the decoding ending either way.
C28_BusyFlagReleased == isValidating ~> ~isValidating

\* C30: when handleImageScan has finished, on success or on any failure,
\* the worker it created is terminated and isScanning is false.
C30_WorkerReleased ==
    scanPc = "idle" => worker # "created" /\ ~isScanning

====
